---- MODULE Spec2Model ----
(***************************************************************************)
(* netvis: graph construction (NetworkGenerator, pairwise and bipartite     *)
(* variants) and force-directed layout (ForceDirectedGraph).                *)
(*                                                                          *)
(* Conventions.  A JavaScript value that is missing (undefined / null / '') *)
(* is the empty string "": every place the code reads such a value tests it *)
(* for truthiness.  A strength is the exact rational [n, d] in lowest terms *)
(* (the code's single division, compared as a double).  A threshold is kept *)
(* in tenths (1 = 0.1, 10 = 1.0).  A colour is the palette index 1..size,   *)
(* 0 is NetworkDefaults.otherColor.  A Map is its insertion-ordered         *)
(* sequence of entries.                                                     *)
(***************************************************************************)
EXTENDS Integers, Sequences, FiniteSets, TLC

VARIABLES
    variant,            \* which NetworkGenerator class the instance is of
    people,             \* this.people
    connections,        \* this.connections: cache key -> connection list
    cachedTopSchools,   \* this.cachedTopSchools   (<<>> when never set)
    cachedTopCompanies, \* this.cachedTopCompanies
    cachedTopSkills,    \* this.cachedTopSkills
    cachedTopLocations, \* this.cachedTopLocations
    cachedTopN,         \* this.cachedTopN (bipartite), 0 when never set
    result,             \* what the last generateNetwork call returned
    lastOpts,           \* the options of that call
    calls,              \* generateNetwork calls made on this instance
    repeated,           \* that call had the options of the call before it,
                        \* on the same population
    pass,               \* locals of that call: selectedPeople, connections,
                        \* filteredPeople, groupColors, topGroups
    sim,                \* the ForceDirectedGraph effect's simulation
    pointer,            \* the pointer gesture on a node of the graph and
                        \* what its click handed to onClick
    app,                \* AdvancedEmployeeNetwork: its state and the loads
                        \* and generation passes in flight
    controls,           \* GraphControls: the settings prop and the local
                        \* threshold and maxNodes the sliders hold
    processor           \* the DataProcessor: people, stats.processingErrors,
                        \* and the argument and outcome of the last call

genVars == <<variant, people, connections, cachedTopSchools, cachedTopCompanies,
             cachedTopSkills, cachedTopLocations, cachedTopN, result, lastOpts, calls,
             repeated, pass>>
vars == <<genVars, sim, pointer, app, controls, processor>>

----------------------------------------------------------------------------
(* Bounds of the model *)

MaxBase == 2        \* people of a population drawn freely from the profiles
MaxPad == 1         \* further people, each with keys nobody else has
MaxCalls == 2       \* generateNetwork calls on one instance (call sequences)
MaxExtra == 2       \* people beyond the palette size (large populations)
MaxSimNodes == 2    \* nodes handed to the ForceDirectedGraph simulation
MaxRaw == 3         \* raw records in one processEmployeeData call

(* Program constants *)

PaletteSizePairwise == 12    \* NetworkDefaults.colors.length, pairwise build
PaletteSizeBipartite == 15   \* NetworkDefaults.colors.length, bipartite build
OtherColor == 0              \* NetworkDefaults.otherColor
DefaultTopCount == 12        \* getTopSchools(people, count = 12)
DragThreshold == 5           \* 5 pixel threshold
DragAlphaTarget == 3         \* simulation.alphaTarget(0.3), in tenths
DefaultThreshold == 1        \* NetworkDefaults.network.threshold, 0.1
DefaultMaxNodes == 75        \* NetworkDefaults.network.maxNodes
ThresholdMin == 1            \* NetworkDefaults.ranges.threshold.min, 0.1
ThresholdMax == 10           \* NetworkDefaults.ranges.threshold.max, 1.0
MaxNodesMin == 10            \* NetworkDefaults.ranges.maxNodes.min
MaxNodesMax == 100           \* NetworkDefaults.ranges.maxNodes.max

EDUCATION == "education"
COMPANY == "company"
LOCATION == "location"
SKILLS == "skills"
ConnectionTypes == {EDUCATION, COMPANY, LOCATION, SKILLS}

----------------------------------------------------------------------------
(* Generic helpers *)

Min(a, b) == IF a <= b THEN a ELSE b
Max(a, b) == IF a >= b THEN a ELSE b

RECURSIVE GCD(_, _)
GCD(a, b) == IF b = 0 THEN a ELSE GCD(b, a % b)

\* n / d as the value a double division yields, in lowest terms
Frac(n, d) == LET g == GCD(n, d) IN [n |-> n \div g, d |-> d \div g]

FracGeqTenths(a, t) == a.n * 10 >= t * a.d

\* Math.min(1, n / Math.max(1, m))
Ratio(n, m) == IF n >= Max(1, m) THEN Frac(1, 1) ELSE Frac(n, Max(1, m))

Includes(s, x) == \E i \in DOMAIN s : s[i] = x

RECURSIVE FilterIn(_, _)
\* s.filter(x => keep.includes(x)), keep a set
FilterIn(s, keep) ==
    IF s = <<>> THEN <<>>
    ELSE IF Head(s) \in keep THEN <<Head(s)>> \o FilterIn(Tail(s), keep)
         ELSE FilterIn(Tail(s), keep)

RECURSIVE Flatten(_)
Flatten(ss) == IF ss = <<>> THEN <<>> ELSE Head(ss) \o Flatten(Tail(ss))

Range(s) == {s[i] : i \in DOMAIN s}

\* the keys of s in order of first occurrence (Map insertion order)
FirstOccurrences(s) ==
    LET firsts == {i \in DOMAIN s : \A j \in 1..(i - 1) : s[j] # s[i]}
        RECURSIVE Build(_)
        Build(i) == IF i > Len(s) THEN <<>>
                    ELSE IF i \in firsts THEN <<s[i]>> \o Build(i + 1)
                    ELSE Build(i + 1)
    IN Build(1)

\* counts.set(k, (counts.get(k) || 0) + 1) over s, as Array.from(entries())
Tally(s) ==
    LET ks == FirstOccurrences(s)
    IN [i \in DOMAIN ks |->
          [key |-> ks[i], count |-> Cardinality({j \in DOMAIN s : s[j] = ks[i]})]]

RemoveAt(s, i) == SubSeq(s, 1, i - 1) \o SubSeq(s, i + 1, Len(s))

RECURSIVE SortByCountDesc(_)
\* entries.sort((a, b) => b.count - a.count): stable, highest count first
SortByCountDesc(s) ==
    IF s = <<>> THEN <<>>
    ELSE LET i == CHOOSE k \in DOMAIN s :
                     /\ \A j \in DOMAIN s : s[j].count <= s[k].count
                     /\ \A j \in 1..(k - 1) : s[j].count < s[k].count
         IN <<s[i]>> \o SortByCountDesc(RemoveAt(s, i))

\* s.slice(0, count): a negative count is taken from the end
Slice(s, count) ==
    SubSeq(s, 1, IF count < 0 THEN Max(Len(s) + count, 0) ELSE Min(count, Len(s)))

EmptyMap == [k \in {} |-> <<>>]
MapGet(m, k, default) == IF k \in DOMAIN m THEN m[k] ELSE default
MapSet(m, k, v) == [x \in (DOMAIN m) \cup {k} |-> IF x = k THEN v ELSE m[x]]

----------------------------------------------------------------------------
(* The input: Person objects (PersonClass.js) *)

Edu(id, name, year) == [schoolId |-> id, school |-> name, endDate |-> year]
Company(name, norm) == [name |-> name, normalizedName |-> norm]
Loc(city, country, full) ==
    [present |-> TRUE, city |-> city, country |-> country, full |-> full]
\* person.location === null (extractLocation of missing location data)
NoLocation == [present |-> FALSE, city |-> "", country |-> "", full |-> ""]

\* attribute shapes of a person; education alone may name a school twice
\* (extractCompanies keys a Map by normalized name, extractSkills a Set)
Profiles == <<
    [education |-> <<Edu("s1", "MIT", 2020)>>,
     companies |-> <<Company("Acme Inc", "acme")>>,
     skills    |-> <<"Go">>,
     location  |-> Loc("Austin", "US", "Austin, US")],
    [education |-> <<Edu("s1", "MIT", 2018), Edu("s2", "Yale", 2021)>>,
     companies |-> <<Company("Acme", "acme"), Company("Bolt", "bolt")>>,
     skills    |-> <<"Go", "Rust">>,
     location  |-> Loc("Boston", "US", "Boston, US")],
    [education |-> <<Edu("s1", "MIT", 2015), Edu("s1", "MIT", 2017)>>,
     companies |-> <<Company("Bolt", "bolt")>>,
     skills    |-> <<"Rust">>,
     location  |-> Loc("Austin", "US", "Austin, US")],
    [education |-> <<>>,
     companies |-> <<>>,
     skills    |-> <<>>,
     location  |-> NoLocation],
    [education |-> <<Edu("s2", "Yale", 0), Edu("s1", "MIT", 2019)>>,
     companies |-> <<Company("Bolt", "bolt"), Company("Acme Inc", "acme")>>,
     skills    |-> <<"Rust", "Go">>,
     location  |-> Loc("Cork", "IE", "Cork, IE")],
    [education |-> <<Edu("", "Duke", 2016)>>,
     companies |-> <<Company("Core", "core")>>,
     skills    |-> <<"SQL">>,
     location  |-> Loc("", "US", "")]
>>

PersonIds == <<"p1", "p2", "p3", "p4", "p5", "p6", "p7", "p8", "p9", "p10",
               "p11", "p12", "p13", "p14", "p15", "p16", "p17", "p18", "p19", "p20">>

\* missing names the array fields of the person that are null or undefined;
\* such a field is held as <<>>, the value every guarded read (?. and || [])
\* takes for it
MkPerson(id, profile) ==
    [id |-> id, education |-> profile.education, companies |-> profile.companies,
     skills |-> profile.skills, location |-> profile.location, missing |-> {}]

\* the person with the fields named in m null or undefined
WithMissing(person, m) ==
    [person EXCEPT !.missing = m,
                   !.education = IF "education" \in m THEN <<>> ELSE @,
                   !.companies = IF "companies" \in m THEN <<>> ELSE @,
                   !.skills = IF "skills" \in m THEN <<>> ELSE @]

\* a person whose school, company, skill and city nobody else has
PadKeys == <<"x01", "x02", "x03", "x04", "x05", "x06", "x07", "x08", "x09", "x10",
             "x11", "x12", "x13", "x14", "x15", "x16", "x17", "x18", "x19", "x20">>

PadPerson(id, k) ==
    [id |-> id,
     education |-> <<Edu(PadKeys[k], PadKeys[k], 2010)>>,
     companies |-> <<Company(PadKeys[k], PadKeys[k])>>,
     skills    |-> <<PadKeys[k]>>,
     location  |-> Loc(PadKeys[k], PadKeys[k], PadKeys[k]),
     missing   |-> {}]

\* base people (ids 1..n in order) followed by pad people
MkPopulation(base, pad) ==
    [i \in 1..(Len(base) + pad) |->
        IF i <= Len(base) THEN MkPerson(PersonIds[i], Profiles[base[i]])
        ELSE PadPerson(PersonIds[i], i - Len(base))]

RECURSIVE SeqsUpTo(_, _)
SeqsUpTo(S, n) ==
    IF n = 0 THEN {<<>>}
    ELSE LET shorter == SeqsUpTo(S, n - 1)
         IN shorter \cup {Append(s, x) : s \in {t \in shorter : Len(t) = n - 1}, x \in S}

Populations ==
    {MkPopulation(b, k) : b \in SeqsUpTo(DOMAIN Profiles, MaxBase), k \in 0..MaxPad}

----------------------------------------------------------------------------
(* Attribute accessors *)

\* `name_${school.toLowerCase().replace(/[^a-z0-9]/g, '_')}` on the names used
NameKey(school) ==
    CASE school = "MIT"  -> "name_mit"
      [] school = "Yale" -> "name_yale"
      [] school = "Duke" -> "name_duke"
      [] OTHER           -> "name_" \o school

\* schoolId.startsWith('name_')
IsNameKey(key) == key \in {"name_mit", "name_yale", "name_duke"}

getPersonEducationSchools(person) ==
    [i \in DOMAIN person.education |->
        LET edu == person.education[i]
        IN IF edu.schoolId # "" THEN edu.schoolId
           ELSE IF edu.school # "" THEN NameKey(edu.school)
           ELSE "unknown"]

getPersonCompanies(person) ==
    [i \in DOMAIN person.companies |->
        IF person.companies[i].name # "" THEN person.companies[i].name ELSE "unknown"]

getCompanyNames(person) ==
    [i \in DOMAIN person.companies |-> person.companies[i].normalizedName]

RECURSIVE FilterTruthy(_)
FilterTruthy(s) ==
    IF s = <<>> THEN <<>>
    ELSE IF Head(s) # "" THEN <<Head(s)>> \o FilterTruthy(Tail(s))
         ELSE FilterTruthy(Tail(s))

getPersonSkills(person) == FilterTruthy(person.skills)

\* person.location?.city || 'Unknown'
LocationCity(person) ==
    IF ~person.location.present THEN "Unknown"
    ELSE IF person.location.city = "" THEN "Unknown"
    ELSE person.location.city

\* the getPersonItems closure of generateNodes / generateLegendData
PersonItems(person, connectionType) ==
    CASE connectionType = EDUCATION -> getPersonEducationSchools(person)
      [] connectionType = COMPANY   -> getPersonCompanies(person)
      [] connectionType = SKILLS    -> getPersonSkills(person)
      [] connectionType = LOCATION  -> <<LocationCity(person)>>

----------------------------------------------------------------------------
(* Pairwise strength and connections *)

\* a.filter(x => b.includes(x))
Shared(a, b) == FilterIn(a, Range(b))

calculateEducationStrength(person1, person2, sharedSchools) ==
    IF Len(sharedSchools) = 0 THEN Frac(0, 1)
    ELSE Ratio(Len(sharedSchools),
               Max(Len(person1.education), Len(person2.education)))

calculateCompanyStrength(person1, person2, sharedCompanies) ==
    IF Len(sharedCompanies) = 0 THEN Frac(0, 1)
    ELSE Ratio(Len(sharedCompanies),
               Max(Len(person1.companies), Len(person2.companies)))

calculateLocationStrength(person1, person2) ==
    IF ~person1.location.present \/ ~person2.location.present THEN Frac(0, 1)
    ELSE IF person1.location.city = person2.location.city THEN Frac(1, 1)
    ELSE IF person1.location.country = person2.location.country THEN Frac(3, 10)
    ELSE Frac(0, 1)

calculateSkillsStrength(person1, person2, sharedSkills) ==
    IF Len(sharedSkills) = 0 THEN Frac(0, 1)
    ELSE Ratio(Len(sharedSkills),
               Cardinality(Range(person1.skills) \cup Range(person2.skills)))

\* the shared keys the pair loop computes for people[i], people[j]
SharedItems(person1, person2, connectionType) ==
    CASE connectionType = EDUCATION ->
            Shared(getPersonEducationSchools(person1), getPersonEducationSchools(person2))
      [] connectionType = COMPANY ->
            Shared(getCompanyNames(person1), getCompanyNames(person2))
      [] connectionType = SKILLS -> Shared(person1.skills, person2.skills)
      [] connectionType = LOCATION ->
            <<IF ~person1.location.present \/ person1.location.full = ""
              THEN "Unknown" ELSE person1.location.full>>

\* the strength the pair loop computes with person1 = people[i], person2 = people[j]
Strength(person1, person2, connectionType) ==
    LET sh == SharedItems(person1, person2, connectionType)
    IN CASE connectionType = EDUCATION -> calculateEducationStrength(person1, person2, sh)
         [] connectionType = COMPANY   -> calculateCompanyStrength(person1, person2, sh)
         [] connectionType = SKILLS    -> calculateSkillsStrength(person1, person2, sh)
         [] connectionType = LOCATION  -> calculateLocationStrength(person1, person2)

\* whether the pair loop pushes a connection for (person1, person2)
Connects(person1, person2, connectionType, threshold) ==
    /\ connectionType # LOCATION =>
           Len(SharedItems(person1, person2, connectionType)) > 0
    /\ FracGeqTenths(Strength(person1, person2, connectionType), threshold)

\* generateEducationConnections / Company / Location / Skills: for i, for j > i
PairConnections(ps, connectionType, threshold) ==
    LET RECURSIVE Inner(_, _)
        Inner(i, j) ==
            IF j > Len(ps) THEN <<>>
            ELSE (IF Connects(ps[i], ps[j], connectionType, threshold)
                  THEN <<[source |-> ps[i].id, target |-> ps[j].id,
                          strength |-> Strength(ps[i], ps[j], connectionType),
                          type |-> connectionType,
                          sharedItems |-> SharedItems(ps[i], ps[j], connectionType)]>>
                  ELSE <<>>) \o Inner(i, j + 1)
        RECURSIVE Outer(_)
        Outer(i) == IF i > Len(ps) THEN <<>> ELSE Inner(i, i + 1) \o Outer(i + 1)
    IN Outer(1)

CacheKey(ps, connectionType, threshold) == <<connectionType, threshold, Len(ps)>>

\* generateConnections: [connections |-> returned list, cache |-> this.connections after]
generateConnections(cache, ps, connectionType, threshold) ==
    LET cacheKey == CacheKey(ps, connectionType, threshold)
    IN IF cacheKey \in DOMAIN cache
       THEN [connections |-> cache[cacheKey], cache |-> cache]
       ELSE LET conns == PairConnections(ps, connectionType, threshold)
            IN [connections |-> conns, cache |-> MapSet(cache, cacheKey, conns)]

\* filterConnectedPeople (mutant: nobody is filtered out)
filterConnectedPeople_keepAll(ps, conns) == ps

\* filterConnectedPeople
filterConnectedPeople(ps, conns) ==
    LET connectedIds == {conns[i].source : i \in DOMAIN conns}
                          \cup {conns[i].target : i \in DOMAIN conns}
        RECURSIVE Keep(_)
        Keep(i) == IF i > Len(ps) THEN <<>>
                   ELSE IF ps[i].id \in connectedIds THEN <<ps[i]>> \o Keep(i + 1)
                   ELSE Keep(i + 1)
    IN Keep(1)

\* estimateConnectionCount
estimateConnectionCount(person) ==
    Len(person.companies) + Len(person.education) + Len(person.skills)

\* selectPeople (mutant: the first maxNodes people as they stand)
selectPeople_unsorted(ps, maxNodes) == Slice(ps, maxNodes)

\* selectPeople
selectPeople(ps, maxNodes) ==
    IF Len(ps) <= maxNodes THEN ps
    ELSE LET withCounts == [i \in DOMAIN ps |->
                              [person |-> ps[i], count |-> estimateConnectionCount(ps[i])]]
             sorted == Slice(SortByCountDesc(withCounts), maxNodes)
         IN [i \in DOMAIN sorted |-> sorted[i].person]

----------------------------------------------------------------------------
(* Reads of a missing field that are not guarded: a TypeError *)

\* estimateConnectionCount: person.companies.length + person.education.length
\* + person.skills.length
estimateConnectionCountRaises(person) ==
    person.missing \cap {"companies", "education", "skills"} # {}

\* selectPeople: the estimate is taken only when people.length > maxNodes
selectPeopleRaises(ps, maxNodes) ==
    /\ Len(ps) > maxNodes
    /\ \E i \in DOMAIN ps : estimateConnectionCountRaises(ps[i])

\* person1.skills.filter(skill => person2.skills.includes(skill)) in the pair
\* loop: person1.skills is read for every pair, person2.skills once per skill
\* of person1
generateSkillsConnectionsRaises(ps) ==
    \E i, j \in DOMAIN ps :
        /\ i < j
        /\ \/ "skills" \in ps[i].missing
           \/ Len(ps[i].skills) > 0 /\ "skills" \in ps[j].missing

\* person1.getCompanyNames().filter(c => person2.getCompanyNames().includes(c)),
\* getCompanyNames being this.companies.map(...)
generateCompanyConnectionsRaises(ps) ==
    \E i, j \in DOMAIN ps :
        /\ i < j
        /\ \/ "companies" \in ps[i].missing
           \/ Len(ps[i].companies) > 0 /\ "companies" \in ps[j].missing

\* generateConnections: a cached list is returned without the pair loop
generateConnectionsRaises(cache, ps, connectionType, threshold) ==
    /\ CacheKey(ps, connectionType, threshold) \notin DOMAIN cache
    /\ CASE connectionType = SKILLS  -> generateSkillsConnectionsRaises(ps)
         [] connectionType = COMPANY -> generateCompanyConnectionsRaises(ps)
         [] OTHER                    -> FALSE

\* generateNetwork (either build) raises: every later read of an attribute
\* goes through getPersonEducationSchools, getPersonCompanies,
\* getPersonSkills or person.location?.
generateNetworkRaises(ps, cache, options) ==
    \/ selectPeopleRaises(ps, options.maxNodes)
    \/ /\ ~selectPeopleRaises(ps, options.maxNodes)
       /\ generateConnectionsRaises(cache, selectPeople(ps, options.maxNodes),
                                    options.connectionType, options.threshold)

----------------------------------------------------------------------------
(* Ranking *)

RECURSIVE FilterNot(_, _)
FilterNot(s, x) ==
    IF s = <<>> THEN <<>>
    ELSE IF Head(s) # x THEN <<Head(s)>> \o FilterNot(Tail(s), x)
         ELSE FilterNot(Tail(s), x)

\* the body shared by getTopSchools / Companies / Skills / Locations
TopOf(keys, excluded, count) ==
    Slice(SortByCountDesc(Tally(FilterNot(keys, excluded))), count)

getTopSchools(ps, count) ==
    TopOf(Flatten([i \in DOMAIN ps |-> getPersonEducationSchools(ps[i])]), "unknown", count)

getTopCompanies(ps, count) ==
    TopOf(Flatten([i \in DOMAIN ps |-> getPersonCompanies(ps[i])]), "unknown", count)

getTopSkills(ps, count) ==
    TopOf(Flatten([i \in DOMAIN ps |-> getPersonSkills(ps[i])]), "unknown", count)

getTopLocations(ps, count) ==
    TopOf([i \in DOMAIN ps |-> LocationCity(ps[i])], "Unknown", count)

\* the switch of generateNodes (pairwise)
TopItemsFor(ps, connectionType, count) ==
    CASE connectionType = EDUCATION -> getTopSchools(ps, count)
      [] connectionType = COMPANY   -> getTopCompanies(ps, count)
      [] connectionType = SKILLS    -> getTopSkills(ps, count)
      [] connectionType = LOCATION  -> getTopLocations(ps, count)

TopKeys(topItems) == {topItems[i].key : i \in DOMAIN topItems}

\* topItemsList.findIndex(t => t.key === item), 0 when absent
RankOf(item, topItemsList) ==
    IF item \in TopKeys(topItemsList)
    THEN CHOOSE i \in DOMAIN topItemsList :
            /\ topItemsList[i].key = item
            /\ \A j \in 1..(i - 1) : topItemsList[j].key # item
    ELSE 0

\* getBestRankingItem: "" when no item is in the list
getBestRankingItem(personItems, topItemsList) ==
    LET ranked == {i \in DOMAIN personItems : RankOf(personItems[i], topItemsList) # 0}
    IN IF ranked = {} THEN ""
       ELSE LET b == CHOOSE i \in ranked :
                        \A j \in ranked : RankOf(personItems[i], topItemsList)
                                            <= RankOf(personItems[j], topItemsList)
            IN personItems[b]

\* getSchoolNameById: "" for null
getSchoolNameById(person, schoolId) ==
    LET hits == IF IsNameKey(schoolId)
                THEN {i \in DOMAIN person.education :
                        /\ person.education[i].school # ""
                        /\ NameKey(person.education[i].school) = schoolId}
                ELSE {i \in DOMAIN person.education :
                        \/ person.education[i].schoolId = schoolId
                        \/ person.education[i].school = schoolId}
    IN IF hits = {} THEN ""
       ELSE person.education[CHOOSE i \in hits : \A j \in hits : i <= j].school

\* getMostRecentEducation (end dates carry a year only; 0 is no end date)
getMostRecentEducation(person) ==
    IF Len(person.education) = 0
    THEN [school |-> "No Education Listed", schoolId |-> "none"]
    ELSE LET RECURSIVE Reduce(_, _)
             Reduce(latest, i) ==
                 IF i > Len(person.education) THEN latest
                 ELSE LET current == person.education[i]
                      IN Reduce(IF current.endDate = 0 THEN current
                                ELSE IF latest.endDate = 0 THEN latest
                                ELSE IF current.endDate # latest.endDate
                                     THEN (IF current.endDate > latest.endDate
                                           THEN current ELSE latest)
                                ELSE latest,
                                i + 1)
             mostRecent == Reduce(person.education[1], 2)
         IN [school   |-> IF mostRecent.school # "" THEN mostRecent.school
                          ELSE "Unknown School",
             schoolId |-> IF mostRecent.schoolId # "" THEN mostRecent.schoolId
                          ELSE IF mostRecent.school # "" THEN mostRecent.school
                          ELSE "unknown"]

\* the instance's cachedTop* fields as one record
CachedTops(schools, companies, skills, locations) ==
    [schools |-> schools, companies |-> companies, skills |-> skills,
     locations |-> locations]

\* getPersonGroup: reads this.cachedTop* (ct)
getPersonGroup(person, connectionType, ct) ==
    CASE connectionType = EDUCATION ->
            LET bestSchoolId ==
                    getBestRankingItem(getPersonEducationSchools(person), ct.schools)
                schoolName == getSchoolNameById(person, bestSchoolId)
                mostRecentEducation == getMostRecentEducation(person)
            IN IF bestSchoolId # ""
               THEN [key |-> bestSchoolId,
                     label |-> IF schoolName # "" THEN schoolName ELSE bestSchoolId]
               ELSE [key |-> mostRecentEducation.schoolId,
                     label |-> mostRecentEducation.school]
      [] connectionType = COMPANY ->
            LET bestCompanyName ==
                    getBestRankingItem(getPersonCompanies(person), ct.companies)
            IN IF bestCompanyName # ""
               THEN [key |-> bestCompanyName, label |-> bestCompanyName]
               ELSE [key |-> "Unknown", label |-> "Unknown Company"]
      [] connectionType = LOCATION ->
            [key |-> LocationCity(person),
             label |-> IF person.location.present /\ person.location.full # ""
                       THEN person.location.full ELSE "Unknown Location"]
      [] connectionType = SKILLS ->
            LET bestSkill == getBestRankingItem(getPersonSkills(person), ct.skills)
            IN IF bestSkill # ""
               THEN [key |-> bestSkill, label |-> bestSkill]
               ELSE [key |-> "Unknown", label |-> "No Skills Listed"]

\* the if-chain of getGroupColors that stores the top list of connectionType
SetCachedTop(ct, connectionType, top) ==
    CASE connectionType = SKILLS    -> [ct EXCEPT !.skills = top]
      [] connectionType = EDUCATION -> [ct EXCEPT !.schools = top]
      [] connectionType = COMPANY   -> [ct EXCEPT !.companies = top]
      [] connectionType = LOCATION  -> [ct EXCEPT !.locations = top]

----------------------------------------------------------------------------
(* Pairwise build: NetworkGenerator.js *)

\* getGroupColors counting the groups before it stores the new top list (mutant)
getGroupColors_stale(ps, connectionType, topN, ct) ==
    LET ct2 == SetCachedTop(ct, connectionType, TopItemsFor(ps, connectionType, topN))
        groupCounts == Tally([i \in DOMAIN ps |->
                                 getPersonGroup(ps[i], connectionType, ct).key])
        sortedGroups == SortByCountDesc(groupCounts)
    IN [colorMap |->
           [k \in TopKeys(sortedGroups) |->
               LET index == RankOf(k, sortedGroups) - 1
               IN IF index < topN THEN (index % PaletteSizePairwise) + 1
                  ELSE OtherColor],
        ct |-> ct2]

\* getGroupColors: [colorMap |-> key -> colour, ct |-> the cachedTop* fields after]
getGroupColors(ps, connectionType, topN, ct) ==
    LET ct2 == SetCachedTop(ct, connectionType, TopItemsFor(ps, connectionType, topN))
        groupCounts == Tally([i \in DOMAIN ps |->
                                 getPersonGroup(ps[i], connectionType, ct2).key])
        sortedGroups == SortByCountDesc(groupCounts)
    IN [colorMap |->
           [k \in TopKeys(sortedGroups) |->
               LET index == RankOf(k, sortedGroups) - 1
               IN IF index < topN THEN (index % PaletteSizePairwise) + 1
                  ELSE OtherColor],
        ct |-> ct2]

\* round(100 * ln(n)), n = 1..23
Ln100 == <<0, 69, 110, 139, 161, 179, 195, 208, 220, 230, 240, 248, 256, 264,
           271, 277, 283, 289, 294, 300, 304, 309, 314>>

\* calculateNodeSize, in hundredths: clamp(minSize, maxSize, baseSize + ln(c + 1) * 4)
calculateNodeSize(person, conns) ==
    LET connectionCount ==
            Cardinality({i \in DOMAIN conns :
                conns[i].source = person.id \/ conns[i].target = person.id})
        connectionBonus == IF connectionCount > 0 THEN Ln100[connectionCount + 1] * 4 ELSE 0
    IN Max(600, Min(3000, 800 + connectionBonus))

\* the colour choice of generateNodes and generateBipartiteNodes
NodeColors(personTopItems, groupColors) ==
    IF Len(personTopItems) = 0 THEN [color |-> OtherColor, multiColors |-> <<>>]
    ELSE IF Len(personTopItems) = 1
    THEN [color |-> MapGet(groupColors, personTopItems[1], OtherColor),
          multiColors |-> <<>>]
    ELSE LET multi == [i \in DOMAIN personTopItems |->
                          MapGet(groupColors, personTopItems[i], OtherColor)]
         IN [color |-> multi[1], multiColors |-> multi]

\* generateNodes (label and fullName, copies of the person's name, left out)
generateNodes(ps, groupColors, connectionType, topN, conns, ct) ==
    LET topItems == TopItemsFor(ps, connectionType, topN)
    IN [i \in DOMAIN ps |->
          LET person == ps[i]
              groupInfo == getPersonGroup(person, connectionType, ct)
              personTopItems == FilterIn(PersonItems(person, connectionType),
                                         TopKeys(topItems))
              c == NodeColors(personTopItems, groupColors)
          IN [id |-> person.id,
              size |-> calculateNodeSize(person, conns),
              color |-> c.color,
              multiColors |-> c.multiColors,
              group |-> groupInfo.key,
              groupLabel |-> groupInfo.label,
              type |-> "person",
              person |-> person]]

\* generateLinks (colour, width, opacity, distance: functions of type and strength)
generateLinks(conns, connectionType) ==
    [i \in DOMAIN conns |->
        [source |-> conns[i].source, target |-> conns[i].target,
         strength |-> conns[i].strength, type |-> conns[i].type]]

----------------------------------------------------------------------------
(* Legend *)

\* the labels in a.label.localeCompare(b.label) order; every 'Other ... (k)'
\* label stands at "Other" (a legend holds at most one)
LabelOrder == <<"Acme", "Acme Inc", "Austin", "Austin, US", "Bolt", "Boston",
                "Boston, US", "Core", "Cork", "Cork, IE", "Duke", "Go", "MIT",
                "name_duke", "name_mit", "name_yale",
                "No Education Listed", "No Skills Listed", "Other", "Rust",
                "s1", "s2", "SQL", "Unknown", "Unknown Company",
                "Unknown Location", "Unknown School">> \o PadKeys \o <<"Yale">>

LabelRank(entry) ==
    LET l == IF entry.key = "others" THEN "Other" ELSE entry.label
    IN CHOOSE i \in DOMAIN LabelOrder : LabelOrder[i] = l

RECURSIVE SortLegend(_)
\* sort((a, b) => b.count !== a.count ? b.count - a.count : a.label.localeCompare(b.label))
SortLegend(s) ==
    IF s = <<>> THEN <<>>
    ELSE LET Before(a, b) == \/ a.count > b.count
                             \/ a.count = b.count /\ LabelRank(a) < LabelRank(b)
             i == CHOOSE k \in DOMAIN s :
                     /\ \A j \in DOMAIN s : ~Before(s[j], s[k])
                     /\ \A j \in 1..(k - 1) : Before(s[k], s[j])
         IN <<s[i]>> \o SortLegend(RemoveAt(s, i))

RECURSIVE FilterColor(_, _)
\* the entries whose colour is (gray = TRUE) or is not the overflow colour
FilterColor(s, gray) ==
    IF s = <<>> THEN <<>>
    ELSE IF (Head(s).color = OtherColor) = gray
         THEN <<Head(s)>> \o FilterColor(Tail(s), gray)
         ELSE FilterColor(Tail(s), gray)

\* `Other Schools (${k})` and the like
OtherLabel(connectionType, k) ==
    (CASE connectionType = EDUCATION -> "Other Schools ("
       [] connectionType = COMPANY   -> "Other Companies ("
       [] connectionType = SKILLS    -> "Other Skills ("
       [] connectionType = LOCATION  -> "Other Locations (") \o ToString(k) \o ")"

\* a legend that leaves out whoever is in no featured group (mutant)
LegendContributions_noFallback(person, connectionType, ct) ==
    LET topItems == CASE connectionType = EDUCATION -> ct.schools
                      [] connectionType = COMPANY   -> ct.companies
                      [] connectionType = SKILLS    -> ct.skills
                      [] connectionType = LOCATION  -> ct.locations
        personTopItems == FilterIn(PersonItems(person, connectionType), TopKeys(topItems))
    IN [i \in DOMAIN personTopItems |->
           [key |-> personTopItems[i], label |-> personTopItems[i], id |-> person.id]]

\* what one person adds to the groups Map: one [key, label, id] per count++
LegendContributions(person, connectionType, ct) ==
    LET topItems == CASE connectionType = EDUCATION -> ct.schools
                      [] connectionType = COMPANY   -> ct.companies
                      [] connectionType = SKILLS    -> ct.skills
                      [] connectionType = LOCATION  -> ct.locations
        personTopItems == FilterIn(PersonItems(person, connectionType), TopKeys(topItems))
        groupInfo == getPersonGroup(person, connectionType, ct)
        schoolName(item) == getSchoolNameById(person, item)
    IN IF Len(personTopItems) > 0
       THEN [i \in DOMAIN personTopItems |->
               [key |-> personTopItems[i],
                label |-> IF connectionType = EDUCATION
                             /\ schoolName(personTopItems[i]) # ""
                          THEN schoolName(personTopItems[i])
                          ELSE personTopItems[i],
                id |-> person.id]]
       ELSE <<[key |-> groupInfo.key, label |-> groupInfo.label, id |-> person.id]>>

RECURSIVE IdsOf(_, _)
\* the ids pushed to the people list of group k, in push order
IdsOf(contribs, k) ==
    IF contribs = <<>> THEN <<>>
    ELSE (IF Head(contribs).key = k THEN <<Head(contribs).id>> ELSE <<>>)
            \o IdsOf(Tail(contribs), k)

\* the entry of the groups Map under key k
LegendGroup(contribs, k, groupColors) ==
    LET of == {i \in DOMAIN contribs : contribs[i].key = k}
    IN [key |-> k,
        label |-> contribs[CHOOSE i \in of : \A j \in of : i <= j].label,
        color |-> MapGet(groupColors, k, OtherColor),
        count |-> Cardinality(of),
        people |-> FirstOccurrences(IdsOf(contribs, k))]

\* Array.from(groups.values())
LegendGroups(contribs, groupColors) ==
    LET keys == FirstOccurrences([i \in DOMAIN contribs |-> contribs[i].key])
    IN [g \in DOMAIN keys |-> LegendGroup(contribs, keys[g], groupColors)]

\* the 'others' entry that stands for the gray groups
OtherEntry(grayGroups, connectionType) ==
    LET otherPeople == FirstOccurrences(Flatten([g \in DOMAIN grayGroups |->
                                                    grayGroups[g].people]))
    IN [key |-> "others",
        label |-> OtherLabel(connectionType, Len(grayGroups)),
        color |-> OtherColor,
        count |-> Len(otherPeople),
        people |-> otherPeople]

\* the coloured groups, and one entry for the gray ones when there are any
WithOthers(coloredGroups, grayGroups, connectionType) ==
    IF Len(grayGroups) > 0
    THEN SortLegend(Append(coloredGroups, OtherEntry(grayGroups, connectionType)))
    ELSE coloredGroups

SplitLegend(sortedGroups, connectionType) ==
    WithOthers(FilterColor(sortedGroups, FALSE), FilterColor(sortedGroups, TRUE),
               connectionType)

\* generateLegendData (pairwise)
generateLegendData(ps, groupColors, connectionType, ct) ==
    SplitLegend(
        SortLegend(LegendGroups(
            Flatten([i \in DOMAIN ps |-> LegendContributions(ps[i], connectionType, ct)]),
            groupColors)),
        connectionType)

----------------------------------------------------------------------------
(* Options and results *)

Options(connectionType, threshold, maxNodes, includeIsolated, topN) ==
    [connectionType |-> connectionType, threshold |-> threshold,
     maxNodes |-> maxNodes, includeIsolated |-> includeIsolated, topN |-> topN]

NoResult == [none |-> TRUE]
NoOpts == [none |-> TRUE]
\* the call ended in an exception instead of a returned object
Threw == [threw |-> TRUE]

\* generateNetwork (pairwise) from getGroupColors on: nodes, links, legend, metadata.
\* averageConnections is kept as the pair (connections.length, filteredPeople.length)
\* the code divides.
PairwiseBuild(selectedPeople, gc, filteredPeople, colors, options) ==
    [result |->
        [nodes |-> generateNodes(filteredPeople, colors.colorMap, options.connectionType,
                                 options.topN, gc.connections, colors.ct),
         links |-> generateLinks(gc.connections, options.connectionType),
         legendData |-> generateLegendData(filteredPeople, colors.colorMap,
                                           options.connectionType, colors.ct),
         metadata |-> [connectionType |-> options.connectionType,
                       threshold |-> options.threshold,
                       topN |-> options.topN,
                       totalPeople |-> Len(filteredPeople),
                       totalConnections |-> Len(gc.connections),
                       averageConnections |->
                           <<Len(gc.connections), Len(filteredPeople)>>]],
     cache |-> gc.cache,
     ct |-> colors.ct,
     pass |-> [selectedPeople |-> selectedPeople,
               connections |-> gc.connections,
               filteredPeople |-> filteredPeople,
               groupColors |-> colors.colorMap,
               topGroups |-> TopItemsFor(filteredPeople, options.connectionType,
                                         options.topN)]]

\* generateNetwork (pairwise) from the isolated-node filter on
PairwiseFrom(selectedPeople, gc, ct, options) ==
    LET filteredPeople == IF options.includeIsolated THEN selectedPeople
                          ELSE filterConnectedPeople(selectedPeople, gc.connections)
    IN PairwiseBuild(selectedPeople, gc, filteredPeople,
                     getGroupColors(filteredPeople, options.connectionType,
                                    options.topN, ct),
                     options)

\* generateNetwork (pairwise): the returned object and the instance fields after
generateNetworkPairwise(ps, cache, ct, options) ==
    LET selectedPeople == selectPeople(ps, options.maxNodes)
    IN PairwiseFrom(selectedPeople,
                    generateConnections(cache, selectedPeople, options.connectionType,
                                        options.threshold),
                    ct, options)

----------------------------------------------------------------------------
(* Bipartite build: the NetworkGenerator with group nodes *)

\* the requested topN taken as it comes (mutant)
EffectiveTopN_noClamp(topN) == topN

\* Math.min(topN, NetworkDefaults.colors.length)
EffectiveTopN(topN) == Min(topN, PaletteSizeBipartite)

\* getTopGroupsForType
getTopGroupsForType(ps, connectionType, topN) ==
    TopItemsFor(ps, connectionType, EffectiveTopN(topN))

\* getGroupColors (bipartite): [colorMap, ct]
getGroupColorsBipartite(ps, connectionType, topN, ct) ==
    LET effectiveTopN == EffectiveTopN(topN)
        topGroups == getTopGroupsForType(ps, connectionType, effectiveTopN)
    IN [colorMap |->
           [k \in TopKeys(topGroups) |->
               LET index == RankOf(k, topGroups) - 1
               IN IF index < effectiveTopN THEN index + 1 ELSE OtherColor],
        ct |-> SetCachedTop(ct, connectionType, topGroups)]

\* the label of a group: for education the school name of the first person
\* who has the key, else the key (labels stay under 20 characters)
GroupLabel(ps, connectionType, key) ==
    IF connectionType = EDUCATION
    THEN LET having == {i \in DOMAIN ps : Includes(getPersonEducationSchools(ps[i]), key)}
         IN IF having = {} THEN key
            ELSE LET samplePerson == ps[CHOOSE i \in having : \A j \in having : i <= j]
                 IN IF getSchoolNameById(samplePerson, key) # ""
                    THEN getSchoolNameById(samplePerson, key) ELSE key
    ELSE key

GroupId(key) == "group_" \o key

\* generateBipartiteNodes: [peopleNodes, groupNodes]
generateBipartiteNodes(ps, groupColors, connectionType, topN, topGroups) ==
    [peopleNodes |->
        [i \in DOMAIN ps |->
            LET person == ps[i]
                personTopGroups == FilterIn(PersonItems(person, connectionType),
                                            TopKeys(topGroups))
                c == NodeColors(personTopGroups, groupColors)
            IN [id |-> person.id,
                size |-> 800,
                color |-> c.color,
                multiColors |-> c.multiColors,
                type |-> "person",
                person |-> person,
                topGroups |-> personTopGroups,
                isIsolated |-> Len(personTopGroups) = 0]],
     groupNodes |->
        [g \in DOMAIN topGroups |->
            [id |-> GroupId(topGroups[g].key),
             label |-> GroupLabel(ps, connectionType, topGroups[g].key),
             size |-> Max(1200, Min(3000, 800 + Ln100[topGroups[g].count + 1] * 3)),
             color |-> MapGet(groupColors, topGroups[g].key, OtherColor),
             type |-> "group",
             groupKey |-> topGroups[g].key,
             connectionType |-> connectionType,
             memberCount |-> topGroups[g].count]]]

\* generatePersonToGroupLinks
generatePersonToGroupLinks_allItems(ps, connectionType, topGroups, groupColors) ==
    Flatten([i \in DOMAIN ps |->
        LET items == PersonItems(ps[i], connectionType)
        IN [k \in DOMAIN items |->
               [source |-> ps[i].id,
                target |-> GroupId(items[k]),
                strength |-> Frac(1, 1),
                color |-> MapGet(groupColors, items[k], OtherColor),
                type |-> "person-to-group",
                groupKey |-> items[k],
                connectionType |-> connectionType]]])
generatePersonToGroupLinks(ps, connectionType, topGroups, groupColors) ==
    Flatten([i \in DOMAIN ps |->
        LET items == FilterIn(PersonItems(ps[i], connectionType), TopKeys(topGroups))
        IN [k \in DOMAIN items |->
               [source |-> ps[i].id,
                target |-> GroupId(items[k]),
                strength |-> Frac(1, 1),
                color |-> MapGet(groupColors, items[k], OtherColor),
                type |-> "person-to-group",
                groupKey |-> items[k],
                connectionType |-> connectionType]]])

\* generateLegendData (bipartite): reads this.cachedTopN
generateLegendDataBipartite(ps, groupColors, connectionType, topNCached) ==
    LET effectiveTopN == EffectiveTopN(IF topNCached # 0 THEN topNCached
                                       ELSE DefaultTopCount)
        topGroups == getTopGroupsForType(ps, connectionType, effectiveTopN)
    IN SortLegend([g \in DOMAIN topGroups |->
                      [key |-> topGroups[g].key,
                       label |-> GroupLabel(ps, connectionType, topGroups[g].key),
                       color |-> MapGet(groupColors, topGroups[g].key, OtherColor),
                       count |-> topGroups[g].count,
                       type |-> "group"]])

RECURSIVE NotIsolated(_)
\* peopleNodes.filter(node => !node.isIsolated)
NotIsolated(nodes) ==
    IF nodes = <<>> THEN <<>>
    ELSE IF ~Head(nodes).isIsolated THEN <<Head(nodes)>> \o NotIsolated(Tail(nodes))
         ELSE NotIsolated(Tail(nodes))

\* generateNetwork (bipartite) from the filter of the people nodes on.
\* averageConnections is kept as the pair (links.length, max(1, people)) the code divides.
BipartiteBuild(selectedPeople, gc, filteredPeople, colors, topGroups, bn, options) ==
    LET finalPeopleNodes == IF options.includeIsolated THEN bn.peopleNodes
                            ELSE NotIsolated(bn.peopleNodes)
        links == generatePersonToGroupLinks(
                     [i \in DOMAIN finalPeopleNodes |-> finalPeopleNodes[i].person],
                     options.connectionType, topGroups, colors.colorMap)
    IN [result |->
           [nodes |-> finalPeopleNodes \o bn.groupNodes,
            links |-> links,
            legendData |-> generateLegendDataBipartite(
                               filteredPeople, colors.colorMap, options.connectionType,
                               options.topN),
            metadata |-> [connectionType |-> options.connectionType,
                          threshold |-> options.threshold,
                          topN |-> options.topN,
                          effectiveTopN |-> EffectiveTopN(options.topN),
                          totalPeople |-> Len(finalPeopleNodes),
                          totalGroups |-> Len(topGroups),
                          totalNodes |-> Len(finalPeopleNodes) + Len(bn.groupNodes),
                          totalConnections |-> Len(links),
                          averageConnections |->
                              <<Len(links), Max(1, Len(finalPeopleNodes))>>,
                          isolatedPeople |-> Len(bn.peopleNodes) - Len(finalPeopleNodes),
                          networkType |-> "bipartite"]],
        cache |-> gc.cache,
        ct |-> colors.ct,
        cachedTopN |-> options.topN,
        pass |-> [selectedPeople |-> selectedPeople,
                  connections |-> gc.connections,
                  filteredPeople |-> filteredPeople,
                  groupColors |-> colors.colorMap,
                  topGroups |-> topGroups]]

\* generateNetwork (bipartite) from getGroupColors on
BipartiteGroups(selectedPeople, gc, filteredPeople, colors, topGroups, options) ==
    BipartiteBuild(selectedPeople, gc, filteredPeople, colors, topGroups,
                   generateBipartiteNodes(filteredPeople, colors.colorMap,
                                          options.connectionType,
                                          EffectiveTopN(options.topN), topGroups),
                   options)

\* generateNetwork (bipartite) from the isolated-node filter on
BipartiteFrom(selectedPeople, gc, ct, options) ==
    LET filteredPeople == IF options.includeIsolated THEN selectedPeople
                          ELSE filterConnectedPeople(selectedPeople, gc.connections)
    IN BipartiteGroups(selectedPeople, gc, filteredPeople,
                       getGroupColorsBipartite(filteredPeople, options.connectionType,
                                               EffectiveTopN(options.topN), ct),
                       getTopGroupsForType(filteredPeople, options.connectionType,
                                           EffectiveTopN(options.topN)),
                       options)

\* generateNetwork (bipartite): the returned object and the instance fields after
generateNetworkBipartite(ps, cache, ct, options) ==
    LET selectedPeople == selectPeople(ps, options.maxNodes)
    IN BipartiteFrom(selectedPeople,
                     generateConnections(cache, selectedPeople, options.connectionType,
                                         options.threshold),
                     ct, options)

----------------------------------------------------------------------------
(* The generator instance as a state machine *)

\* AdvancedEmployeeNetwork as constructed (useState): dataLoading true, no
\* people, no error.  settings counts the settings objects setSettings has
\* made; shown is the one networkData was generated with (NoSettings: the
\* empty networkData); passes holds the settings each generateNetwork() call
\* in flight was made with; loads counts the loadData() calls in flight
NoSettings == 0 - 1
AppInit == [mounted |-> FALSE, dataLoading |-> TRUE, people |-> 0, error |-> FALSE,
            isLoading |-> FALSE, settings |-> 0, shown |-> NoSettings,
            passes |-> {}, loads |-> 0]

\* no gesture yet, onClick not called
NoCall == [called |-> FALSE, arg |-> <<>>]
PointerInit == [node |-> 0, down |-> <<0, 0>>, reach |-> 0, up |-> FALSE,
                onClick |-> NoCall]

NoPass == [none |-> TRUE]
\* the component is mounted and no simulation is created yet.  state is the
\* state of the simulation the last effect with nodes created; cleanup says
\* whether the last effect run returned the cleanup function (it does when it
\* creates a simulation); inDom whether the node elements of that simulation,
\* with their drag handlers, are in the svg; orphanRunning whether the timer
\* of an earlier simulation is still running
SimIdle == [state |-> "none", innerWidth |-> 0, innerHeight |-> 0, nodes |-> <<>>,
            ticked |-> FALSE, active |-> 0, clickPrevented |-> FALSE,
            alphaTarget |-> 0,
            mounted |-> TRUE, cleanup |-> FALSE, inDom |-> FALSE,
            orphanRunning |-> FALSE]

PAIRWISE == "pairwise"
BIPARTITE == "bipartite"

\* GraphControls as mounted by the page: settings = NetworkDefaults.network,
\* threshold in tenths
ControlsInit ==
    [settings |-> [threshold |-> DefaultThreshold, maxNodes |-> DefaultMaxNodes],
     localThreshold |-> DefaultThreshold,
     localMaxNodes |-> DefaultMaxNodes]

\* new DataProcessor(); no call made yet
ProcessorInit ==
    [people |-> <<>>, processingErrors |-> <<>>, rawEmployeeData |-> <<>>,
     outcome |-> "none"]

\* constructor
Init ==
    /\ variant \in {PAIRWISE, BIPARTITE}
    /\ people = <<>>
    /\ connections = EmptyMap
    /\ cachedTopSchools = <<>>
    /\ cachedTopCompanies = <<>>
    /\ cachedTopSkills = <<>>
    /\ cachedTopLocations = <<>>
    /\ cachedTopN = 0
    /\ result = NoResult
    /\ lastOpts = NoOpts
    /\ calls = 0
    /\ repeated = FALSE
    /\ pass = NoPass
    /\ sim = SimIdle
    /\ controls = ControlsInit
    /\ pointer = PointerInit
    /\ app = AppInit
    /\ processor = ProcessorInit

\* the component and the data processor do not look at the generator: one
\* build stands for both
InitOneBuild == Init /\ variant = PAIRWISE

\* setPeople that keeps this.connections (mutant)
SetPeople_keepCache(pop, maxCalls) ==
    /\ calls < maxCalls
    /\ people' = pop
    /\ result' = NoResult
    /\ lastOpts' = NoOpts
    /\ repeated' = FALSE
    /\ pass' = NoPass
    /\ UNCHANGED <<variant, connections, cachedTopSchools, cachedTopCompanies,
                   cachedTopSkills, cachedTopLocations, cachedTopN, calls, sim, pointer,
                   controls, processor, app>>

\* setPeople(pop); result, lastOpts, pass speak of the current population only
SetPeople(pop, maxCalls) ==
    /\ calls < maxCalls
    /\ people' = pop
    /\ connections' = EmptyMap
    /\ result' = NoResult
    /\ lastOpts' = NoOpts
    /\ repeated' = FALSE
    /\ pass' = NoPass
    /\ UNCHANGED <<variant, cachedTopSchools, cachedTopCompanies, cachedTopSkills,
                   cachedTopLocations, cachedTopN, calls, sim, pointer, controls,
                   processor, app>>

CurrentTops ==
    CachedTops(cachedTopSchools, cachedTopCompanies, cachedTopSkills, cachedTopLocations)

\* what a generateNetwork call leaves behind, r the outcome record
Returned(r, options) ==
    /\ result' = r.result
    /\ connections' = r.cache
    /\ cachedTopSchools' = r.ct.schools
    /\ cachedTopCompanies' = r.ct.companies
    /\ cachedTopSkills' = r.ct.skills
    /\ cachedTopLocations' = r.ct.locations
    /\ pass' = r.pass
    /\ lastOpts' = options
    /\ repeated' = (lastOpts = options)
    /\ calls' = calls + 1

\* what a generateNetwork call that raises leaves behind: the exception
\* leaves selectPeople or the pair loop, before this.connections.set and
\* before getGroupColors stores a top list
Raised(options) ==
    /\ result' = Threw
    /\ pass' = NoPass
    /\ lastOpts' = options
    /\ repeated' = (lastOpts = options)
    /\ calls' = calls + 1
    /\ UNCHANGED <<connections, cachedTopSchools, cachedTopCompanies, cachedTopSkills,
                   cachedTopLocations, app>>

\* generateNetwork(options) of NetworkGenerator.js
GenerateNetworkPairwise(options, maxCalls) ==
    /\ variant = PAIRWISE
    /\ calls < maxCalls
    /\ IF generateNetworkRaises(people, connections, options)
       THEN Raised(options)
       ELSE Returned(generateNetworkPairwise(people, connections, CurrentTops, options),
                     options)
    /\ UNCHANGED <<variant, people, cachedTopN, sim, pointer, controls, processor, app>>

\* generateNetwork(options) of the bipartite NetworkGenerator; this.cachedTopN
\* is stored before anything else is done
GenerateNetworkBipartite(options, maxCalls) ==
    /\ variant = BIPARTITE
    /\ calls < maxCalls
    /\ IF generateNetworkRaises(people, connections, options)
       THEN Raised(options)
       ELSE Returned(generateNetworkBipartite(people, connections, CurrentTops, options),
                     options)
    /\ cachedTopN' = options.topN
    /\ UNCHANGED <<variant, people, sim, pointer, controls, processor, app>>

\* the options a caller passes
OptionSet ==
    {Options(t, th, m, iso, n) :
        t \in ConnectionTypes, th \in {1, 5, 10}, m \in {2, 10},
        iso \in BOOLEAN, n \in {1, 2, 6}}

\* one population, one pass
Next ==
    \/ \E pop \in Populations : SetPeople(pop, 1)
    \/ \E o \in OptionSet : GenerateNetworkPairwise(o, 1)
    \/ \E o \in OptionSet : GenerateNetworkBipartite(o, 1)

Spec == Init /\ [][Next]_vars

\* sequences of setPeople and generateNetwork calls on one instance
SeqPopulations ==
    {MkPopulation(b, 0) : b \in {<<1, 2>>, <<2, 1>>, <<3, 2>>, <<5, 4, 1>>, <<6, 2, 2>>}}

SeqOptionSet ==
    {Options(t, th, m, iso, n) :
        t \in {EDUCATION, COMPANY}, th \in {1, 10}, m \in {2, 10},
        iso \in BOOLEAN, n \in {1, 6}}

NextSeq ==
    \/ \E pop \in SeqPopulations : SetPeople(pop, MaxCalls)
    \/ \E o \in SeqOptionSet : GenerateNetworkPairwise(o, MaxCalls)
    \/ \E o \in SeqOptionSet : GenerateNetworkBipartite(o, MaxCalls)

SpecSeq == Init /\ [][NextSeq]_vars

\* populations with more groups than the palette has colours
PalettePopulations ==
    {MkPopulation(b, k) : b \in SeqsUpTo(DOMAIN Profiles, 1),
                          k \in (PaletteSizePairwise - 1)..(PaletteSizeBipartite + MaxExtra)}

PaletteOptionSet ==
    {Options(t, 1, 100, iso, n) :
        t \in ConnectionTypes, iso \in BOOLEAN, n \in {6, 12, 13, 15, 16, 20}}

NextPalette ==
    \/ \E pop \in PalettePopulations : SetPeople(pop, 1)
    \/ \E o \in PaletteOptionSet : GenerateNetworkPairwise(o, 1)
    \/ \E o \in PaletteOptionSet : GenerateNetworkBipartite(o, 1)

SpecPalette == Init /\ [][NextPalette]_vars

\* populations around the least maxNodes of the slider: one person or none,
\* then people with keys of their own, then up to MaxBase people more
SelectPopulations ==
    {[i \in 1..(Len(a) + (MaxNodesMin - 1) + Len(b)) |->
         IF i <= Len(a) THEN MkPerson(PersonIds[i], Profiles[a[i]])
         ELSE IF i <= Len(a) + (MaxNodesMin - 1) THEN PadPerson(PersonIds[i], i - Len(a))
         ELSE MkPerson(PersonIds[i], Profiles[b[i - Len(a) - (MaxNodesMin - 1)]])] :
        a \in SeqsUpTo({2, 4}, 1), b \in SeqsUpTo({1, 2, 4}, MaxBase)}

SelectOptionSet ==
    {Options(EDUCATION, 1, m, TRUE, 6) : m \in {MaxNodesMin, MaxNodesMin + 1, MaxNodesMax}}

NextSelect ==
    \/ \E pop \in SelectPopulations : SetPeople(pop, 1)
    \/ \E o \in SelectOptionSet : GenerateNetworkPairwise(o, 1)
    \/ \E o \in SelectOptionSet : GenerateNetworkBipartite(o, 1)

SpecSelect == Init /\ [][NextSelect]_vars

----------------------------------------------------------------------------
(* GraphControls.js: the threshold and maxNodes sliders *)

\* the settings effect of GraphControls: the local values follow the prop
\* (settings.threshold || default, settings.maxNodes || default)
SyncLocal(settings) ==
    [settings |-> settings,
     localThreshold |-> IF settings.threshold # 0 THEN settings.threshold
                        ELSE DefaultThreshold,
     localMaxNodes |-> IF settings.maxNodes # 0 THEN settings.maxNodes
                       ELSE DefaultMaxNodes]

\* handleThresholdChange(value): the slider moves
handleThresholdChange(value) ==
    /\ controls' = [controls EXCEPT !.localThreshold = value]
    /\ UNCHANGED <<genVars, sim, pointer, processor, app>>

\* handleMaxNodesChange(value)
handleMaxNodesChange(value) ==
    /\ controls' = [controls EXCEPT !.localMaxNodes = value]
    /\ UNCHANGED <<genVars, sim, pointer, processor, app>>

\* applyThresholdChange: a value in the range goes to the page through
\* onChange (handleSettingsChange merges it into settings, the settings
\* effect runs); any other value is dropped and the slider shows the default
applyThresholdChange ==
    /\ controls' =
           IF controls.localThreshold >= ThresholdMin
                /\ controls.localThreshold <= ThresholdMax
           THEN SyncLocal([controls.settings EXCEPT
                              !.threshold = controls.localThreshold])
           ELSE [controls EXCEPT !.localThreshold = DefaultThreshold]
    /\ UNCHANGED <<genVars, sim, pointer, processor, app>>

\* applyMaxNodesChange
applyMaxNodesChange ==
    /\ controls' =
           IF controls.localMaxNodes >= MaxNodesMin
                /\ controls.localMaxNodes <= MaxNodesMax
           THEN SyncLocal([controls.settings EXCEPT
                              !.maxNodes = controls.localMaxNodes])
           ELSE [controls EXCEPT !.localMaxNodes = DefaultMaxNodes]
    /\ UNCHANGED <<genVars, sim, pointer, processor, app>>

\* the options the page's settings give generateNetwork (connectionType,
\* includeIsolated and topN as NetworkDefaults.network has them)
SettingsOptions ==
    Options(EDUCATION, controls.settings.threshold, controls.settings.maxNodes, FALSE, 8)

\* the page's effect on settings: networkGenerator.generateNetwork(settings)
RegenerateFromSettings ==
    /\ Len(people) > 0
    /\ \/ GenerateNetworkPairwise(SettingsOptions, 1)
       \/ GenerateNetworkBipartite(SettingsOptions, 1)

\* values the sliders are moved to, inside and outside the ranges
EnteredThresholds == {0 - 5, 5, 15}
EnteredMaxNodes == {0, 50, 150}

RangePopulations ==
    {MkPopulation(b, 0) : b \in {<<1, 1>>, <<1, 2, 6>>, <<3, 2, 5>>}}

\* options a caller passes, inside and outside the ranges
RangeOptionSet ==
    {Options(t, th, m, iso, 6) :
        t \in {EDUCATION, LOCATION}, th \in {0 - 5, 0, 10, 15},
        m \in {0 - 1, 0, 10, 150}, iso \in BOOLEAN}

NextRange ==
    \/ \E pop \in RangePopulations : SetPeople(pop, 1)
    \/ \E o \in RangeOptionSet : GenerateNetworkPairwise(o, 1)
    \/ \E o \in RangeOptionSet : GenerateNetworkBipartite(o, 1)
    \/ \E v \in EnteredThresholds : handleThresholdChange(v)
    \/ \E v \in EnteredMaxNodes : handleMaxNodesChange(v)
    \/ applyThresholdChange
    \/ applyMaxNodesChange
    \/ RegenerateFromSettings

SpecRange == Init /\ [][NextRange]_vars

----------------------------------------------------------------------------
(* dataProcessor.js: raw records to Person objects *)

\* a raw record: shape is "object", "null" (null or undefined) or "number"
\* (any other primitive); basic_info, basic_info.public_identifier and name
\* may be missing (FALSE, ""); listsOk is FALSE when experience or education
\* is given and is not an array
Raw(shape, hasBasicInfo, public_identifier, name, listsOk) ==
    [shape |-> shape, hasBasicInfo |-> hasBasicInfo,
     public_identifier |-> public_identifier, name |-> name, listsOk |-> listsOk]

RawKinds == {Raw("object", TRUE, "ann", "Ann", TRUE),
             Raw("object", TRUE, "bob", "", TRUE),
             Raw("object", FALSE, "", "Cy", TRUE),
             Raw("object", TRUE, "", "", TRUE),
             Raw("object", TRUE, "eve", "Eve", FALSE),
             Raw("null", FALSE, "", "", TRUE),
             Raw("number", FALSE, "", "", TRUE)}

RawInputs == SeqsUpTo(RawKinds, MaxRaw)

\* processEmployeeRecord: "person", or the message of what it throws.
\* rawEmployee.basic_info of null is a TypeError, of a primitive undefined;
\* new Person(rawEmployee) calls forEach / map on experience and education
processEmployeeRecord(rawEmployee) ==
    IF rawEmployee.shape = "null" THEN "TypeError"
    ELSE IF ~rawEmployee.hasBasicInfo \/ rawEmployee.public_identifier = ""
    THEN "Missing basic_info or public_identifier"
    ELSE IF ~rawEmployee.listsOk THEN "TypeError"
    ELSE "person"

\* the Person of a record, as far as the processor is concerned
PersonOf(rawEmployee) ==
    [id |-> rawEmployee.public_identifier, name |-> rawEmployee.name]

RECURSIVE ProcessLoop(_, _, _)
\* the for-of loop of processEmployeeData from record i on: the catch block
\* reads employeeData.name, which raises again when employeeData is null
ProcessLoop(acc, rawEmployeeData, i) ==
    IF i > Len(rawEmployeeData) THEN [acc EXCEPT !.outcome = "returned"]
    ELSE LET employeeData == rawEmployeeData[i]
             error == processEmployeeRecord(employeeData)
         IN IF error = "person"
            THEN ProcessLoop([acc EXCEPT !.people = Append(@, PersonOf(employeeData))],
                             rawEmployeeData, i + 1)
            ELSE IF employeeData.shape = "null"
            THEN [acc EXCEPT !.outcome = "threw"]
            ELSE ProcessLoop(
                     [acc EXCEPT !.processingErrors =
                         Append(@, [employee |-> IF employeeData.name # ""
                                                 THEN employeeData.name
                                                 ELSE "Unknown",
                                    error |-> error])],
                     rawEmployeeData, i + 1)

\* reset()
reset(rawEmployeeData) ==
    [people |-> <<>>, processingErrors |-> <<>>,
     rawEmployeeData |-> rawEmployeeData, outcome |-> "running"]

\* processEmployeeData(rawEmployeeData), rawEmployeeData an array
processEmployeeData(rawEmployeeData) ==
    /\ processor' = ProcessLoop(reset(rawEmployeeData), rawEmployeeData, 1)
    /\ UNCHANGED <<genVars, sim, pointer, controls, app>>

\* processEmployeeData of what is not an array: 'Invalid employee data
\* provided' is thrown before reset()
processEmployeeDataInvalid ==
    /\ processor' = [processor EXCEPT !.rawEmployeeData = <<>>, !.outcome = "rejected"]
    /\ UNCHANGED <<genVars, sim, pointer, controls, app>>

NextProc ==
    \/ \E raw \in RawInputs : processEmployeeData(raw)
    \/ processEmployeeDataInvalid

SpecProc == InitOneBuild /\ [][NextProc]_vars

\* populations in which people may lack attribute data: a profile and the
\* fields that are null or undefined (profile 4 has empty lists and no location)
MissingKinds == <<[profile |-> 1, missing |-> {}],
                  [profile |-> 2, missing |-> {}],
                  [profile |-> 1, missing |-> {"skills"}],
                  [profile |-> 2, missing |-> {"companies"}],
                  [profile |-> 2, missing |-> {"education"}],
                  [profile |-> 4, missing |-> {"education", "companies", "skills"}],
                  [profile |-> 4, missing |-> {}]>>

MissingPopulations ==
    {[i \in DOMAIN b |->
         WithMissing(MkPerson(PersonIds[i], Profiles[MissingKinds[b[i]].profile]),
                     MissingKinds[b[i]].missing)] :
        b \in SeqsUpTo(DOMAIN MissingKinds, MaxBase + 1)}

MissingOptionSet ==
    {Options(t, th, m, iso, 6) :
        t \in ConnectionTypes, th \in {1}, m \in {2, 10}, iso \in BOOLEAN}

NextMissing ==
    \/ \E pop \in MissingPopulations : SetPeople(pop, 1)
    \/ \E o \in MissingOptionSet : GenerateNetworkPairwise(o, 1)
    \/ \E o \in MissingOptionSet : GenerateNetworkBipartite(o, 1)

SpecMissing == Init /\ [][NextMissing]_vars

----------------------------------------------------------------------------
(* ForceDirectedGraph.js: the effect that creates and drives the simulation *)

MinSvgWidth == 320           \* Math.max(320, containerRect.width - 16)
ContainerInset == 16
MinSvgHeight == 400          \* Math.max(400, Math.min(600, svgWidth * 0.75))
MaxSvgHeight == 600
Padding == 10                \* const padding = 10
DefaultRadius == 10          \* d.size || 10

\* widths of the container the component is laid out in
ContainerWidths == {200, 816}
WideContainer == 816

\* node sizes handed in: none, the largest size
SimSizes == {0, 30}

\* width and height are not passed by the callers: the container decides
svgWidthOf(containerWidth) == Max(MinSvgWidth, containerWidth - ContainerInset)
svgHeightOf(svgWidth) == Max(MinSvgHeight, Min(MaxSvgHeight, (svgWidth * 3) \div 4))
innerWidthOf(svgWidth) == svgWidth - (Padding * 2)
innerHeightOf(svgHeight) == svgHeight - (Padding * 2)

\* const radius = d.size || 10
RadiusOf(d) == IF d.size = 0 THEN DefaultRadius ELSE d.size

\* Math.max(radius, Math.min(limit - radius, v))
ClampTo(radius, limit, v) == Max(radius, Min(limit - radius, v))

NoDragStart == [present |-> FALSE, x |-> 0, y |-> 0]

\* Math.ceil(Math.sqrt(n))
CeilSqrt(n) == CHOOSE c \in 1..n : c * c >= n /\ (c - 1) * (c - 1) < n

\* initial positioning: the nodes on a grid of cols columns
GridNodes(sizes, innerWidth, innerHeight) ==
    LET cols == CeilSqrt(Len(sizes))
        cellWidth == innerWidth \div cols
        cellHeight == innerHeight \div cols
    IN [i \in DOMAIN sizes |->
          LET col == (i - 1) % cols
              row == (i - 1) \div cols
          IN [id |-> i, person |-> [id |-> i], onClick |-> TRUE,
              size |-> sizes[i],
              x |-> (col * cellWidth) + (cellWidth \div 2),
              y |-> (row * cellHeight) + (cellHeight \div 2),
              pinned |-> FALSE, fx |-> 0, fy |-> 0,
              dragStart |-> NoDragStart]]

\* where a pointer event may be: outside (left of and below the area), inside
\* but nearer to the right and top edges than a radius, the middle
SimPoints(innerWidth, innerHeight) ==
    {<<0 - 40, innerHeight + 40>>, <<innerWidth - 7, 7>>,
     <<innerWidth \div 2, innerHeight \div 2>>}

\* where one integration step of d3 may put a node: outside, the middle
StepPoints(innerWidth, innerHeight) ==
    {<<0 - 40, innerHeight + 40>>, <<innerWidth \div 2, innerHeight \div 2>>}

\* one step of the d3 simulation: a node with fx, fy set is put there, any
\* other node goes where the forces take it (to[i])
ForceStep(nodes, to) ==
    [i \in DOMAIN nodes |->
        IF nodes[i].pinned
        THEN [nodes[i] EXCEPT !.x = nodes[i].fx, !.y = nodes[i].fy]
        ELSE [nodes[i] EXCEPT !.x = to[i][1], !.y = to[i][2]]]

\* keepNodesInBounds (mutant: the nodes are left where the step put them)
keepNodesInBounds_noClamp(nodes, innerWidth, innerHeight) == nodes

\* keepNodesInBounds
keepNodesInBounds(nodes, innerWidth, innerHeight) ==
    [i \in DOMAIN nodes |->
        [nodes[i] EXCEPT !.x = ClampTo(RadiusOf(nodes[i]), innerWidth, nodes[i].x),
                         !.y = ClampTo(RadiusOf(nodes[i]), innerHeight, nodes[i].y)]]

\* React runs the cleanup the last effect run returned, if it returned one:
\* simulation.stop()
Cleanup(s) ==
    IF s.cleanup
    THEN [s EXCEPT !.state = IF @ = "none" THEN @ ELSE "stopped", !.cleanup = FALSE]
    ELSE s

\* nodes, links, width, height or physicsParams change (or the component
\* mounts) and there are nodes: the cleanup of the last run, then the svg is
\* cleared, the simulation created and the nodes laid out.  A simulation the
\* cleanup did not stop keeps its timer.
CreateSimulation(containerWidth, sizes) ==
    /\ sim.mounted
    /\ LET svgWidth == svgWidthOf(containerWidth)
           svgHeight == svgHeightOf(svgWidth)
       IN sim' = [state |-> "running",
                  innerWidth |-> innerWidthOf(svgWidth),
                  innerHeight |-> innerHeightOf(svgHeight),
                  nodes |-> GridNodes(sizes, innerWidthOf(svgWidth),
                                      innerHeightOf(svgHeight)),
                  ticked |-> FALSE, active |-> 0, clickPrevented |-> FALSE,
                  alphaTarget |-> 0,
                  mounted |-> TRUE, cleanup |-> TRUE, inDom |-> TRUE,
                  orphanRunning |-> sim.orphanRunning
                                      \/ Cleanup(sim).state = "running"]
    /\ UNCHANGED <<genVars, pointer, controls, processor, app>>

\* the dependencies change and nodes is empty: the cleanup of the last run,
\* then the effect returns at once; the svg is not cleared and no cleanup
\* function is returned.  A drag gesture under way goes on: d3-drag listens
\* for its moves and its end on the window.
EffectWithoutNodes ==
    /\ sim.mounted
    /\ sim' = Cleanup(sim)
    /\ UNCHANGED <<genVars, pointer, controls, processor, app>>

\* the component unmounts: the cleanup of the last run, the svg and the node
\* elements go
Unmount ==
    /\ sim.mounted
    /\ sim' = [SimIdle EXCEPT !.state = Cleanup(sim).state, !.mounted = FALSE,
                              !.orphanRunning = sim.orphanRunning]
    /\ UNCHANGED <<genVars, pointer, controls, processor, app>>

\* alpha of a simulation left running falls under alphaMin: its timer stops
OrphanCool ==
    /\ sim.orphanRunning
    /\ sim' = [sim EXCEPT !.orphanRunning = FALSE]
    /\ UNCHANGED <<genVars, pointer, controls, processor, app>>

\* simulation.on('tick', ...): d3 has moved the nodes, the handler runs
Tick(to) ==
    /\ sim.state = "running"
    /\ sim' = [sim EXCEPT
                 !.nodes = keepNodesInBounds(ForceStep(sim.nodes, to),
                                             sim.innerWidth, sim.innerHeight),
                 !.ticked = TRUE]
    /\ UNCHANGED <<genVars, pointer, controls, processor, app>>

\* alpha has fallen under alphaMin: the timer stops (never while alphaTarget
\* is 0.3, which alpha then tends to)
Cool ==
    /\ sim.state = "running"
    /\ sim.alphaTarget = 0
    /\ sim' = [sim EXCEPT !.state = "cooled"]
    /\ UNCHANGED <<genVars, pointer, controls, processor, app>>

\* dragstarted (mutant: alphaTarget is left at 0)
dragstarted_noAlphaTarget(i, pt) ==
    /\ sim.inDom
    /\ sim.active = 0
    /\ sim' = [sim EXCEPT
                 !.state = "running",
                 !.active = i,
                 !.clickPrevented = FALSE,
                 !.nodes[i].pinned = TRUE,
                 !.nodes[i].fx = sim.nodes[i].x,
                 !.nodes[i].fy = sim.nodes[i].y,
                 !.nodes[i].dragStart = [present |-> TRUE, x |-> pt[1], y |-> pt[2]]]
    /\ UNCHANGED <<genVars, controls, processor, app>>

\* dragstarted(event, d), d the node i, whose element is in the svg:
\* simulation.alphaTarget(0.3).restart() starts the timer, stopped or not
dragstarted(i, pt) ==
    /\ sim.inDom
    /\ sim.active = 0
    /\ sim' = [sim EXCEPT
                 !.state = "running",
                 !.alphaTarget = DragAlphaTarget,
                 !.active = i,
                 !.clickPrevented = FALSE,
                 !.nodes[i].pinned = TRUE,
                 !.nodes[i].fx = sim.nodes[i].x,
                 !.nodes[i].fy = sim.nodes[i].y,
                 !.nodes[i].dragStart = [present |-> TRUE, x |-> pt[1], y |-> pt[2]]]
    /\ UNCHANGED <<genVars, controls, processor, app>>

\* dragged(event, d)
dragged(i, pt) ==
    /\ sim.active = i
    /\ LET d == sim.nodes[i]
           radius == RadiusOf(d)
           dx == pt[1] - d.dragStart.x
           dy == pt[2] - d.dragStart.y
           far == d.dragStart.present
                    /\ (dx * dx) + (dy * dy) > DragThreshold * DragThreshold
       IN sim' = [sim EXCEPT
                    !.nodes[i].fx = ClampTo(radius, sim.innerWidth, pt[1]),
                    !.nodes[i].fy = ClampTo(radius, sim.innerHeight, pt[2]),
                    !.clickPrevented = sim.clickPrevented \/ far]
    /\ UNCHANGED <<genVars, controls, processor, app>>

\* dragended (mutant: the node is released only when it was dragged)
dragended_onlyIfDragged(i, pt) ==
    /\ sim.active = i
    /\ LET d == sim.nodes[i]
           dx == pt[1] - d.dragStart.x
           dy == pt[2] - d.dragStart.y
           wasDrag == d.dragStart.present
                        /\ (dx * dx) + (dy * dy) > DragThreshold * DragThreshold
       IN sim' = [sim EXCEPT
                    !.active = 0,
                    !.alphaTarget = 0,
                    !.nodes[i].pinned = ~wasDrag,
                    !.nodes[i].fx = IF wasDrag THEN 0 ELSE @,
                    !.nodes[i].fy = IF wasDrag THEN 0 ELSE @,
                    !.nodes[i].dragStart = NoDragStart]
    /\ UNCHANGED <<genVars, controls, processor, app>>

\* dragended(event, d): the node is released whether or not it was dragged
dragended(i, pt) ==
    /\ sim.active = i
    /\ sim' = [sim EXCEPT
                 !.active = 0,
                 !.alphaTarget = 0,
                 !.nodes[i].pinned = FALSE,
                 !.nodes[i].fx = 0,
                 !.nodes[i].fy = 0,
                 !.nodes[i].dragStart = NoDragStart]
    /\ UNCHANGED <<genVars, controls, processor, app>>

\* where the pointer of a gesture may be: a point, a point 5 pixels from it
\* (3 across, 4 down), a point more than 5 pixels from it, a point far off
ClickPoints == {<<100, 100>>, <<103, 104>>, <<104, 104>>, <<300, 200>>}

\* how far a move went from the pointer-down position: 1 within the
\* threshold, 2 beyond it
ReachOf(down, pt) ==
    IF ((pt[1] - down[1]) * (pt[1] - down[1])) + ((pt[2] - down[2]) * (pt[2] - down[2]))
          > DragThreshold * DragThreshold
    THEN 2 ELSE 1

\* .on('start', dragstarted): pointer-down on the element of node i
pointerdown(i, pt) ==
    /\ dragstarted(i, pt)
    /\ pointer' = [node |-> i, down |-> pt, reach |-> 0, up |-> FALSE,
                   onClick |-> NoCall]

\* .on('drag', dragged): a pointer-move of the gesture
pointermove(i, pt) ==
    /\ pointer.node = i
    /\ dragged(i, pt)
    /\ pointer' = [pointer EXCEPT !.reach = Max(@, ReachOf(pointer.down, pt))]

\* .on('end', dragended): pointer-up; the browser has a click to deliver
pointerup(i, pt) ==
    /\ pointer.node = i
    /\ dragended(i, pt)
    /\ pointer' = [pointer EXCEPT !.up = TRUE]

\* .on('click', ...) (mutant: event.defaultPrevented is not looked at)
click_noPrevented(i) ==
    /\ pointer.up
    /\ pointer.node = i
    /\ sim.inDom
    /\ pointer' = [pointer EXCEPT
                     !.up = FALSE,
                     !.onClick = IF sim.nodes[i].onClick
                                 THEN [called |-> TRUE, arg |-> <<sim.nodes[i]>>]
                                 ELSE @]
    /\ UNCHANGED <<genVars, sim, controls, processor, app>>

\* .on('click', function (event, d) ...), d the node i: the click that follows
\* the pointer-up of a gesture on its element.  event.defaultPrevented is
\* what dragged made of it; d3-drag itself swallows the click after a move,
\* which only takes deliveries away.
click(i) ==
    /\ pointer.up
    /\ pointer.node = i
    /\ sim.inDom
    /\ pointer' = [pointer EXCEPT
                     !.up = FALSE,
                     !.onClick = IF sim.clickPrevented THEN @
                                 ELSE IF sim.nodes[i].onClick
                                 THEN [called |-> TRUE, arg |-> <<sim.nodes[i]>>]
                                 ELSE @]
    /\ UNCHANGED <<genVars, sim, controls, processor, app>>

SimNodeLists == {s \in SeqsUpTo(SimSizes, MaxSimNodes) : Len(s) > 0}

NextSim ==
    \/ \E w \in ContainerWidths, sizes \in SimNodeLists : CreateSimulation(w, sizes)
    \/ \E to \in [DOMAIN sim.nodes -> StepPoints(sim.innerWidth, sim.innerHeight)] :
          Tick(to)
    \/ Cool
    \/ \E i \in DOMAIN sim.nodes, pt \in SimPoints(sim.innerWidth, sim.innerHeight) :
          dragstarted(i, pt) /\ UNCHANGED pointer
    \/ \E i \in DOMAIN sim.nodes, pt \in SimPoints(sim.innerWidth, sim.innerHeight) :
          dragged(i, pt) /\ UNCHANGED pointer
    \/ \E i \in DOMAIN sim.nodes, pt \in SimPoints(sim.innerWidth, sim.innerHeight) :
          dragended(i, pt) /\ UNCHANGED pointer
    \/ EffectWithoutNodes
    \/ Unmount
    \/ OrphanCool

\* gestures on the nodes of a graph: no render falls between a pointer-up
\* and its click
NextClick ==
    \/ \E w \in ContainerWidths, sizes \in SimNodeLists :
          ~pointer.up /\ CreateSimulation(w, sizes)
    \/ \E i \in DOMAIN sim.nodes, pt \in ClickPoints : pointerdown(i, pt)
    \/ \E i \in DOMAIN sim.nodes, pt \in ClickPoints : pointermove(i, pt)
    \/ \E i \in DOMAIN sim.nodes, pt \in ClickPoints : pointerup(i, pt)
    \/ \E i \in DOMAIN sim.nodes : click(i)

SpecSim == InitOneBuild /\ [][NextSim]_vars
SpecClick == InitOneBuild /\ [][NextClick]_vars

\* alphaDecay is above 0 in every preset: alpha of a running simulation whose
\* alphaTarget is 0 falls under alphaMin after finitely many ticks
NextSettle ==
    \/ \E sizes \in SimNodeLists : CreateSimulation(WideContainer, sizes)
    \/ \E to \in [DOMAIN sim.nodes -> StepPoints(sim.innerWidth, sim.innerHeight)] :
          Tick(to)
    \/ Cool
    \/ \E i \in DOMAIN sim.nodes, pt \in SimPoints(sim.innerWidth, sim.innerHeight) :
          dragstarted(i, pt) /\ UNCHANGED pointer
    \/ \E i \in DOMAIN sim.nodes, pt \in SimPoints(sim.innerWidth, sim.innerHeight) :
          dragged(i, pt) /\ UNCHANGED pointer
    \/ \E i \in DOMAIN sim.nodes, pt \in SimPoints(sim.innerWidth, sim.innerHeight) :
          dragended(i, pt) /\ UNCHANGED pointer
    \/ EffectWithoutNodes
    \/ Unmount
    \/ OrphanCool

SpecSettle ==
    InitOneBuild /\ [][NextSettle]_vars /\ WF_vars(Cool) /\ WF_vars(OrphanCool)

----------------------------------------------------------------------------
(* AdvancedEmployeeNetwork: data load, generation passes, settings changes *)

\* settings objects made by handleSettingsChange in one run
MaxChanges == 4

LoadOutcomes == {"people", "empty", "throws"}

\* generateNetwork() up to its await: nothing without people, else isLoading
\* is set and the pass waits on its timer with the settings of the render
\* that called it
generateNetwork_start(a) ==
    IF a.people = 0 THEN a
    ELSE [a EXCEPT !.isLoading = TRUE, !.passes = @ \cup {a.settings}]

\* the effects of the first render: the load effect calls loadData() when
\* dataLoading is set and there are no people; the two other effects find no
\* people
Mount ==
    /\ ~app.mounted
    /\ app' = [app EXCEPT !.mounted = TRUE,
                          !.loads = IF app.dataLoading /\ app.people = 0
                                    THEN 1 ELSE 0]
    /\ UNCHANGED <<genVars, sim, pointer, controls, processor>>

\* loadData() after its awaits: the processed people are stored, or the error
\* is; dataLoading is cleared either way.  The effect on [people, dataLoading]
\* then starts a generation pass when there are people
loadData(outcome) ==
    /\ app.loads > 0
    /\ LET loaded == [app EXCEPT !.loads = @ - 1,
                                 !.dataLoading = FALSE,
                                 !.people = IF outcome = "people" THEN 1 ELSE @,
                                 !.error = IF outcome = "throws" THEN TRUE ELSE @]
       IN  app' = IF loaded.people > 0 /\ ~loaded.dataLoading
                  THEN generateNetwork_start(loaded) ELSE loaded
    /\ UNCHANGED <<genVars, sim, pointer, controls, processor>>

\* the rest of generateNetwork() once its timer fires: the result of
\* networkGenerator.generateNetwork(settings) becomes networkData, or the
\* error is stored when the call throws; isLoading is cleared either way.
\* The result is identified by the settings object it was generated from
generateNetwork(v, throws) ==
    /\ v \in app.passes
    /\ app' = [app EXCEPT !.passes = @ \ {v},
                          !.shown = IF throws THEN @ ELSE v,
                          !.error = IF throws THEN TRUE ELSE @,
                          !.isLoading = FALSE]
    /\ UNCHANGED <<genVars, sim, pointer, controls, processor>>

\* GraphControls is rendered once the data is loaded without an error
ControlsRendered ==
    app.mounted /\ ~app.dataLoading /\ ~app.error /\ app.people > 0

\* handleSettingsChange makes a new settings object; the effect on [settings]
\* starts a pass unless isLoading is set
handleSettingsChange ==
    /\ ControlsRendered
    /\ app.settings < MaxChanges
    /\ LET changed == [app EXCEPT !.settings = @ + 1]
       IN  app' = IF changed.people > 0 /\ ~changed.dataLoading /\ ~changed.isLoading
                  THEN generateNetwork_start(changed) ELSE changed
    /\ UNCHANGED <<genVars, sim, pointer, controls, processor>>

\* the Retry button of the error screen.  The load effect has no dependencies
\* and does not run again; the effect on [people, dataLoading] finds no people
Retry ==
    /\ app.mounted /\ ~app.dataLoading /\ app.error
    /\ app' = [app EXCEPT !.error = FALSE, !.dataLoading = TRUE, !.people = 0]
    /\ UNCHANGED <<genVars, sim, pointer, controls, processor>>

\* the Try Loading Data button of the no-data screen
TryLoadingData ==
    /\ app.mounted /\ ~app.dataLoading /\ ~app.error /\ app.people = 0
    /\ app' = [app EXCEPT !.dataLoading = TRUE, !.people = 0]
    /\ UNCHANGED <<genVars, sim, pointer, controls, processor>>

NextApp ==
    \/ Mount
    \/ \E outcome \in LoadOutcomes : loadData(outcome)
    \/ \E v \in app.passes, throws \in BOOLEAN : generateNetwork(v, throws)
    \/ handleSettingsChange
    \/ Retry
    \/ TryLoadingData

\* the import of the data and the 100 ms timer of a pass both complete
SpecApp ==
    /\ Init /\ [][NextApp]_vars
    /\ WF_vars(\E outcome \in LoadOutcomes : loadData(outcome))
    /\ WF_vars(\E v \in app.passes, throws \in BOOLEAN : generateNetwork(v, throws))

----------------------------------------------------------------------------
(* Properties *)

Called == pass # NoPass

\* the group keys of a person in a dimension, as a set
KeySet(person, connectionType) ==
    CASE connectionType = EDUCATION -> Range(getPersonEducationSchools(person))
      [] connectionType = COMPANY   -> Range(getCompanyNames(person))
      [] connectionType = SKILLS    -> Range(person.skills)
      [] connectionType = LOCATION  ->
            IF LocationCity(person) = "Unknown" THEN {} ELSE {LocationCity(person)}

Positive(f) == f.n > 0

\* C1: in pairwise mode, for every dimension and every two entities A and B
\* of the population, strength(A, B) = strength(B, A), and the strength is
\* > 0 whenever A and B share a group key.
C1_StrengthSymmetric ==
    (variant = PAIRWISE /\ Called) =>
        \A i, j \in DOMAIN people : \A t \in ConnectionTypes :
            i # j =>
              /\ Strength(people[i], people[j], t) = Strength(people[j], people[i], t)
              /\ KeySet(people[i], t) \cap KeySet(people[j], t) # {}
                    => Positive(Strength(people[i], people[j], t))

\* the connections of the pass that join a and b
Joining(a, b) ==
    {k \in DOMAIN pass.connections :
        {pass.connections[k].source, pass.connections[k].target} = {a.id, b.id}}

\* strength >= threshold and, outside location, a non-empty key intersection
Qualifies(a, b, options) ==
    /\ FracGeqTenths(Strength(a, b, options.connectionType), options.threshold)
    /\ options.connectionType # LOCATION =>
          KeySet(a, options.connectionType) \cap KeySet(b, options.connectionType) # {}

\* the scenario: three entities, exactly two of them share exactly one school
TwoShareOneSchool(sel) ==
    /\ Len(sel) = 3
    /\ Cardinality({pr \in SUBSET (1..3) :
           /\ Cardinality(pr) = 2
           /\ \E i, j \in pr : i # j /\ KeySet(sel[i], EDUCATION)
                                          \cap KeySet(sel[j], EDUCATION) # {}}) = 1
    /\ \A i, j \in 1..3 :
           i # j => Cardinality(KeySet(sel[i], EDUCATION)
                                  \cap KeySet(sel[j], EDUCATION)) <= 1

\* C2: in pairwise mode generateConnections returns, for every unordered pair
\* of distinct retained entities, exactly one connection if the pair's
\* strength is >= threshold (with a non-empty key intersection outside
\* location) and none otherwise; nobody is connected to itself; and three
\* entities of which exactly two share one school, threshold 0.1, give exactly
\* one connection of strength 1 / max(1, larger school count of the two).
C2_ConnectionsExact ==
    (variant = PAIRWISE /\ Called) =>
        LET sel == pass.selectedPeople
            conns == pass.connections
        IN /\ \A i, j \in DOMAIN sel :
                i # j =>
                    Cardinality(Joining(sel[i], sel[j])) =
                        IF Qualifies(sel[i], sel[j], lastOpts) THEN 1 ELSE 0
           /\ \A k \in DOMAIN conns : conns[k].source # conns[k].target
           /\ (lastOpts.connectionType = EDUCATION /\ lastOpts.threshold = 1
                 /\ TwoShareOneSchool(sel)) =>
                 /\ Len(conns) = 1
                 /\ \A i, j \in DOMAIN sel :
                       (i < j /\ Joining(sel[i], sel[j]) # {}) =>
                          conns[1].strength =
                             Frac(1, Max(1, Max(Len(sel[i].education),
                                                Len(sel[j].education))))

\* C3: for every population and every topN in [6, 20], no two distinct group
\* keys are mapped to the same non-overflow colour by getGroupColors.
C3_DistinctColors ==
    (Called /\ lastOpts.topN \in 6..20) =>
        \A k1, k2 \in DOMAIN pass.groupColors :
            (k1 # k2 /\ pass.groupColors[k1] # OtherColor) =>
                pass.groupColors[k1] # pass.groupColors[k2]

Featured(colorMap) == {k \in DOMAIN colorMap : colorMap[k] # OtherColor}

GroupNodes(nodes) == {i \in DOMAIN nodes : nodes[i].type = "group"}
PersonNodes(nodes) == {i \in DOMAIN nodes : nodes[i].type = "person"}

RECURSIVE SumCounts(_)
SumCounts(entries) ==
    IF entries = <<>> THEN 0 ELSE Head(entries).count + SumCounts(Tail(entries))

HasAttribute(person, connectionType) == KeySet(person, connectionType) # {}

Memberships(person) ==
    Len(FilterIn(PersonItems(person, lastOpts.connectionType), TopKeys(pass.topGroups)))

FeaturedGroupsOf(person) ==
    Range(PersonItems(person, lastOpts.connectionType)) \cap TopKeys(pass.topGroups)

EdgesFrom(id) == {l \in DOMAIN result.links : result.links[l].source = id}

\* C6: in bipartite mode every retained entity that belongs to k distinct
\* featured groups has exactly k edges, one to each of those group nodes and
\* none to another node, and for k >= 2 its node carries exactly k secondary
\* colours; also when its attribute list names a group more than once.
C6_EdgePerFeaturedGroup ==
    (variant = BIPARTITE /\ Called) =>
        \A n \in PersonNodes(result.nodes) :
            LET node == result.nodes[n]
                groups == FeaturedGroupsOf(node.person)
                edges == EdgesFrom(node.id)
            IN /\ Cardinality(edges) = Cardinality(groups)
               /\ {result.links[l].target : l \in edges} = {GroupId(g) : g \in groups}
               /\ Cardinality(groups) >= 2 =>
                     Len(node.multiColors) = Cardinality(groups)

\* candidates of the pass that are not retained as non-isolated person nodes
CandidatesNotRetained ==
    Len(pass.selectedPeople)
        - Cardinality({n \in PersonNodes(result.nodes) : ~result.nodes[n].isIsolated})

\* C7: in bipartite mode metadata.isolatedPeople is the number of candidates
\* (selectPeople's choice) without featured-group membership, that is
\* candidates minus retained non-isolated entities, for includeIsolated true
\* and false and every threshold.
C7_IsolatedCount ==
    (variant = BIPARTITE /\ Called) =>
        result.metadata.isolatedPeople = CandidatesNotRetained

\* C8: a generateNetwork call that repeats the options of the call before it,
\* on the same population, returns the same nodes, links, legend and metadata,
\* with the same top-N order and the same key -> colour mapping.
C8_RepeatIdentical ==
    [][(lastOpts # NoOpts /\ calls' = calls + 1 /\ lastOpts' = lastOpts) =>
          /\ result' = result
          /\ pass'.groupColors = pass.groupColors
          /\ pass'.topGroups = pass.topGroups]_vars

\* a repeated call, served from the connection cache, on a population with
\* connections, featured groups and an entity in two of them
C8_Witness ==
    /\ repeated /\ Called
    /\ calls = 2
    /\ Len(pass.connections) > 0
    /\ Len(pass.topGroups) >= 2
    /\ \E i \in DOMAIN pass.filteredPeople :
          Cardinality(FeaturedGroupsOf(pass.filteredPeople[i])) >= 2

InBounds(d) ==
    /\ RadiusOf(d) <= d.x /\ d.x <= sim.innerWidth - RadiusOf(d)
    /\ RadiusOf(d) <= d.y /\ d.y <= sim.innerHeight - RadiusOf(d)

\* C9: once the tick handler has run, every node, a dragged one included, has
\* radius <= x <= innerWidth - radius and radius <= y <= innerHeight - radius,
\* whatever ticks and drag events follow.
C9_NodesInBounds ==
    sim.ticked => \A i \in DOMAIN sim.nodes : InBounds(sim.nodes[i])

\* after a tick: a dragged node whose pointer is nearer to the right and top
\* edges than its radius sits at its clamped fx, fy, and another node, which
\* the step had thrown out to the left and below, sits a radius inside
C9_Witness ==
    /\ sim.ticked /\ sim.state = "running"
    /\ \E i, j \in DOMAIN sim.nodes :
          /\ i # j
          /\ sim.active = i /\ sim.nodes[i].pinned
          /\ sim.nodes[i].x = sim.nodes[i].fx /\ sim.nodes[i].y = sim.nodes[i].fy
          /\ sim.nodes[i].fx = sim.innerWidth - RadiusOf(sim.nodes[i])
          /\ sim.nodes[i].fy = RadiusOf(sim.nodes[i])
          /\ sim.nodes[j].x = RadiusOf(sim.nodes[j])
          /\ sim.nodes[j].y = sim.innerHeight - RadiusOf(sim.nodes[j])

\* what a newly constructed generator returns for the current population
FreshResult ==
    IF variant = PAIRWISE
    THEN generateNetworkPairwise(people, EmptyMap, CachedTops(<<>>, <<>>, <<>>, <<>>),
                                 lastOpts).result
    ELSE generateNetworkBipartite(people, EmptyMap, CachedTops(<<>>, <<>>, <<>>, <<>>),
                                  lastOpts).result

\* C10: over any sequence of setPeople and generateNetwork calls on one
\* instance, every generateNetwork result is the result a newly constructed
\* generator returns for the current population and the same options.
C10_FreshEquivalent ==
    Called => result = FreshResult

\* the keys of a cachedTop* list that nobody of the current population has
StaleKeys(top, connectionType) ==
    {k \in TopKeys(top) :
        \A i \in DOMAIN people : k \notin Range(PersonItems(people[i], connectionType))}

\* a second call, after setPeople: the instance still holds a top list of the
\* other dimension computed from the earlier population, and the connection
\* cache holds the entry of this call only
C10_Witness ==
    /\ Called /\ calls = 2
    /\ Len(pass.connections) > 0
    /\ Cardinality(DOMAIN connections) = 1
    /\ \/ lastOpts.connectionType = EDUCATION /\ StaleKeys(cachedTopCompanies, COMPANY) # {}
       \/ lastOpts.connectionType = COMPANY /\ StaleKeys(cachedTopSchools, EDUCATION) # {}

\* the population with every missing field an empty list
Emptied(ps) == [i \in DOMAIN ps |-> [ps[i] EXCEPT !.missing = {}]]

\* what the call returns for the population with empty lists for the missing
\* fields
EmptiedResult ==
    IF variant = PAIRWISE
    THEN generateNetworkPairwise(Emptied(people), EmptyMap,
                                 CachedTops(<<>>, <<>>, <<>>, <<>>), lastOpts).result
    ELSE generateNetworkBipartite(Emptied(people), EmptyMap,
                                  CachedTops(<<>>, <<>>, <<>>, <<>>), lastOpts).result

\* a node without its back-reference to the person
NodeShape(node) == [f \in (DOMAIN node) \ {"person"} |-> node[f]]
NodeShapes(nodes) == [i \in DOMAIN nodes |-> NodeShape(nodes[i])]

\* C11: generateNetwork completes without raising, for every dimension and
\* every maxNodes, when some entities of the population lack education,
\* companies, skills or location data (null or undefined), and the network
\* is the one obtained with an empty attribute set in place of the missing one.
C11_MissingAsEmpty ==
    (lastOpts # NoOpts) =>
        /\ result # Threw
        /\ NodeShapes(result.nodes) = NodeShapes(EmptiedResult.nodes)
        /\ result.links = EmptiedResult.links
        /\ result.legendData = EmptiedResult.legendData
        /\ result.metadata = EmptiedResult.metadata

\* the nearest bound of [0, 1] (in tenths) and of [10, 100]
ClampThreshold(t) == Max(0, Min(10, t))
ClampMaxNodes(m) == Max(MaxNodesMin, Min(MaxNodesMax, m))

\* what a new generator returns for the options with threshold and maxNodes
\* clamped
ClampedResult ==
    LET o == [lastOpts EXCEPT !.threshold = ClampThreshold(@),
                              !.maxNodes = ClampMaxNodes(@)]
    IN IF variant = PAIRWISE
       THEN generateNetworkPairwise(people, EmptyMap,
                                    CachedTops(<<>>, <<>>, <<>>, <<>>), o).result
       ELSE generateNetworkBipartite(people, EmptyMap,
                                     CachedTops(<<>>, <<>>, <<>>, <<>>), o).result

\* the network returned is the one of the clamped options
ClampedNetwork ==
    Called =>
        /\ result.nodes = ClampedResult.nodes
        /\ result.links = ClampedResult.links
        /\ result.legendData = ClampedResult.legendData

\* C12: a threshold outside [0, 1] or a maxNodes outside [10, 100] passed to
\* generateNetwork gives the network of the nearest valid bound, and such a
\* value entered in the controls reaches the settings as that bound: it is
\* not dropped and the default does not take its place.
C12_OutOfRangeClamped ==
    /\ []ClampedNetwork
    /\ [][/\ applyThresholdChange =>
                 controls'.settings.threshold = ClampThreshold(controls.localThreshold)
          /\ applyMaxNodesChange =>
                 controls'.settings.maxNodes = ClampMaxNodes(controls.localMaxNodes)]_vars

\* C13: in both topologies metadata.averageConnections is totalConnections /
\* max(1, totalPeople): a finite number for every input, and 0 when no entity
\* is retained.
C13_AverageConnections ==
    Called =>
        LET m == result.metadata
            dividend == m.averageConnections[1]
            divisor == m.averageConnections[2]
        IN /\ divisor # 0
           /\ dividend * Max(1, m.totalPeople) = m.totalConnections * divisor
           /\ m.totalPeople = 0 => dividend = 0

\* the record has basic_info and a public_identifier
HasIdentity(raw) ==
    raw.shape = "object" /\ raw.hasBasicInfo /\ raw.public_identifier # ""

\* the record is one the Person constructor accepts
ValidRecord(raw) == HasIdentity(raw) /\ raw.listsOk

RECURSIVE ValidPeople(_)
ValidPeople(raws) ==
    IF raws = <<>> THEN <<>>
    ELSE (IF ValidRecord(Head(raws)) THEN <<PersonOf(Head(raws))>> ELSE <<>>)
            \o ValidPeople(Tail(raws))

\* C14: processEmployeeData, given any array of raw records, returns without
\* throwing: every record without basic_info or public_identifier, a null or
\* non-object entry included, is skipped and adds exactly one entry to
\* stats.processingErrors; the valid records are returned as people in input
\* order; |people| + |processingErrors| = |input|; nothing of an earlier call
\* remains.
C14_InvalidRecordsSkipped ==
    processor.outcome \in {"returned", "threw"} =>
        /\ processor.outcome = "returned"
        /\ processor.people = ValidPeople(processor.rawEmployeeData)
        /\ Len(processor.processingErrors)
              = Len(processor.rawEmployeeData) - Len(processor.people)
        /\ Len(processor.people) + Len(processor.processingErrors)
              = Len(processor.rawEmployeeData)

\* the effect creates a simulation in this step
CreatesSimulation ==
    \E w \in ContainerWidths, sizes \in SimNodeLists : CreateSimulation(w, sizes)

\* C15: at most one tick loop runs for a ForceDirectedGraph at any time: on
\* every change of the dependencies, a change to an empty node list included,
\* and on unmount the earlier simulation is stopped before a new one is
\* created, and a simulation that was stopped never ticks again.
C15_OneTickLoop ==
    /\ [](~(sim.state = "running" /\ sim.orphanRunning))
    /\ [][sim.state = "stopped" => (sim'.state # "running" \/ CreatesSimulation)]_vars


-----------------------------------------------------------------------------
(* C16 *)

\* the step in which onClick is called
CallsOnClick == ~pointer.onClick.called /\ pointer'.onClick.called

-----------------------------------------------------------------------------
(* C17 *)

\* NetworkDefaults.colors.length of the build
PaletteSize == IF variant = PAIRWISE THEN PaletteSizePairwise ELSE PaletteSizeBipartite

\* C17: after the colour assignment of a pass the group at rank i of the
\* top-N list has palette[i], and a group key that is not in the top-N list
\* has the overflow colour or no colour at all.
C17_RankColours ==
    Called =>
        /\ \A p \in DOMAIN pass.topGroups :
              p <= PaletteSize =>
                 /\ pass.topGroups[p].key \in DOMAIN pass.groupColors
                 /\ pass.groupColors[pass.topGroups[p].key] = p
        /\ \A k \in (DOMAIN pass.groupColors) \ TopKeys(pass.topGroups) :
              pass.groupColors[k] = OtherColor

\* the same of the build with group nodes alone
C17_RankColoursBipartite == variant = BIPARTITE => C17_RankColours


-----------------------------------------------------------------------------
(* C18 *)

\* the group keys of the populations in key order (String comparison by code
\* unit: capitals before small letters)
KeysInOrder ==
    <<"Acme", "Acme Inc", "Austin", "Bolt", "Boston", "Core", "Cork", "Go", "Rust",
      "SQL", "acme", "bolt", "core", "name_duke", "s1", "s2">> \o PadKeys

KeyRank(key) == CHOOSE i \in DOMAIN KeysInOrder : KeysInOrder[i] = key

\* ps in the order q names
Permuted(ps, q) == [i \in DOMAIN ps |-> ps[q[i]]]

\* the colour map getGroupColors of the build makes for ps
ColorMapOf(ps) ==
    IF variant = PAIRWISE
    THEN getGroupColors(ps, lastOpts.connectionType, lastOpts.topN,
                        CachedTops(<<>>, <<>>, <<>>, <<>>)).colorMap
    ELSE getGroupColorsBipartite(ps, lastOpts.connectionType,
                                 EffectiveTopN(lastOpts.topN),
                                 CachedTops(<<>>, <<>>, <<>>, <<>>)).colorMap

\* the top-N list of the build for ps
TopListOf(ps) ==
    IF variant = PAIRWISE
    THEN TopItemsFor(ps, lastOpts.connectionType, lastOpts.topN)
    ELSE getTopGroupsForType(ps, lastOpts.connectionType, EffectiveTopN(lastOpts.topN))

\* C18: the top-N list has the higher count first and, of two groups of one
\* count, the lower key first; the list and the colour of every key are the
\* same for every ordering of the people they are made of.
C18_TopNOrderFree ==
    Called =>
        /\ \A i, j \in DOMAIN pass.topGroups :
              i < j =>
                 \/ pass.topGroups[i].count > pass.topGroups[j].count
                 \/ /\ pass.topGroups[i].count = pass.topGroups[j].count
                    /\ KeyRank(pass.topGroups[i].key) < KeyRank(pass.topGroups[j].key)
        /\ \A q \in Permutations(DOMAIN pass.filteredPeople) :
              /\ TopListOf(Permuted(pass.filteredPeople, q)) = pass.topGroups
              /\ ColorMapOf(Permuted(pass.filteredPeople, q)) = pass.groupColors

\* a list of the higher count first alone holds
C18_CountDescending ==
    Called =>
        \A i, j \in DOMAIN pass.topGroups :
            i < j => pass.topGroups[i].count >= pass.topGroups[j].count


-----------------------------------------------------------------------------
(* C19 *)

\* the featured groups of the pass the person belongs to
FeaturedOf(person) ==
    Range(PersonItems(person, lastOpts.connectionType)) \cap TopKeys(pass.topGroups)

\* the one of them that stands first in the top-N list
HighestRanked(person) ==
    CHOOSE k \in FeaturedOf(person) :
        \A k2 \in FeaturedOf(person) :
            RankOf(k, pass.topGroups) <= RankOf(k2, pass.topGroups)

\* C19: in pairwise mode the colour of a person's node is the colour of the
\* highest-ranked featured group the person belongs to, in whatever order
\* the person's own list names its groups, and the overflow colour when the
\* person belongs to no featured group.
C19_PrimaryColour ==
    (variant = PAIRWISE /\ Called) =>
        \A i \in DOMAIN result.nodes :
            LET person == result.nodes[i].person
            IN result.nodes[i].color =
                  IF FeaturedOf(person) = {} THEN OtherColor
                  ELSE MapGet(pass.groupColors, HighestRanked(person), OtherColor)

\* a person of no featured group has the overflow colour
C19_NoFeaturedGray ==
    (variant = PAIRWISE /\ Called) =>
        \A i \in DOMAIN result.nodes :
            FeaturedOf(result.nodes[i].person) = {} =>
                result.nodes[i].color = OtherColor


-----------------------------------------------------------------------------
(* C20 *)

\* the groups Map of the pass's generateLegendData, before the gray entries
\* are put together
AllLegendGroups ==
    LegendGroups(Flatten([i \in DOMAIN pass.filteredPeople |->
                             LegendContributions(pass.filteredPeople[i],
                                                 lastOpts.connectionType, CurrentTops)]),
                 pass.groupColors)

GrayGroups == {g \in DOMAIN AllLegendGroups : AllLegendGroups[g].color = OtherColor}

OverflowEntries ==
    {i \in DOMAIN result.legendData : result.legendData[i].color = OtherColor}

\* one 'others' entry stands for the gray groups: its count the number of
\* distinct people of those groups, its label naming how many keys they are
OthersEntryExact ==
    /\ Cardinality(OverflowEntries) <= 1
    /\ (GrayGroups = {}) <=> (OverflowEntries = {})
    /\ \A i \in OverflowEntries :
          /\ result.legendData[i].key = "others"
          /\ result.legendData[i].count =
                Cardinality(UNION {Range(AllLegendGroups[g].people) : g \in GrayGroups})
          /\ result.legendData[i].label =
                OtherLabel(lastOpts.connectionType,
                           Cardinality({AllLegendGroups[g].key : g \in GrayGroups}))
    /\ \A g \in (DOMAIN AllLegendGroups) \ GrayGroups :
          \E i \in DOMAIN result.legendData : result.legendData[i] = AllLegendGroups[g]

\* C20: the pairwise legend holds one entry 'others' in place of all its
\* entries of the overflow colour, counting the distinct people of those
\* groups and naming the number of their keys; it never holds two entries
\* of the overflow colour, and no featured group is among the groups the
\* 'others' entry stands for.
C20_OthersEntry ==
    (variant = PAIRWISE /\ Called) =>
        /\ OthersEntryExact
        /\ \A g \in GrayGroups :
              AllLegendGroups[g].key \notin TopKeys(pass.topGroups)

\* all of it but the featured groups
C20_OthersEntryExact == (variant = PAIRWISE /\ Called) => OthersEntryExact


-----------------------------------------------------------------------------
(* C21 *)

\* the ids of the person nodes of the result that a link joins to node n
LinkedPeople(n) ==
    {result.links[l].source : l \in {k \in DOMAIN result.links :
                                        result.links[k].target = result.nodes[n].id}}
        \cap {result.nodes[i].id : i \in PersonNodes(result.nodes)}

\* the legend and the group nodes name the same keys, no 'others' entry
LegendKeysAreGroupNodes ==
    /\ {result.legendData[i].key : i \in DOMAIN result.legendData}
          = {result.nodes[n].groupKey : n \in GroupNodes(result.nodes)}
    /\ \A i \in DOMAIN result.legendData :
          /\ result.legendData[i].key # "others"
          /\ result.legendData[i].color # OtherColor
          /\ \A n \in GroupNodes(result.nodes) :
                result.legendData[i].key = result.nodes[n].groupKey =>
                   /\ result.legendData[i].color = result.nodes[n].color
                   /\ result.legendData[i].count = result.nodes[n].memberCount

\* C21: in bipartite mode the legend entries are the groups that became
\* group nodes in the pass, key for key with the same colour; the count of
\* an entry is the memberCount of the group node, which is the number of
\* distinct person nodes of the result linked to it; no overflow entry.
C21_LegendMatchesGroupNodes ==
    (variant = BIPARTITE /\ Called) =>
        /\ LegendKeysAreGroupNodes
        /\ \A n \in GroupNodes(result.nodes) :
              result.nodes[n].memberCount = Cardinality(LinkedPeople(n))

\* keys, colours and counts agree when topN is not 0
C21_LegendKeysMatch ==
    (variant = BIPARTITE /\ Called /\ lastOpts.topN # 0) => LegendKeysAreGroupNodes


-----------------------------------------------------------------------------
(* C22 *)

\* the thresholds the passes are compared at, in tenths
ComparedThresholds == {1, 5, 10}

\* what the bipartite generateNetwork returns for the options of the pass
\* with threshold th in place of theirs
AtThreshold(th) ==
    generateNetworkBipartite(people, EmptyMap, CachedTops(<<>>, <<>>, <<>>, <<>>),
                             [lastOpts EXCEPT !.threshold = th]).result

\* C22: in bipartite mode generateNetwork returns the same nodes, links,
\* legend and counts for every threshold, and with includeIsolated = false
\* the person nodes are the selected people who belong to at least one
\* featured group.
C22_ThresholdIgnored ==
    (variant = BIPARTITE /\ Called) =>
        /\ \A th \in ComparedThresholds :
              /\ AtThreshold(th).nodes = result.nodes
              /\ AtThreshold(th).links = result.links
              /\ AtThreshold(th).legendData = result.legendData
              /\ [AtThreshold(th).metadata EXCEPT !.threshold = lastOpts.threshold]
                    = result.metadata
        /\ ~lastOpts.includeIsolated =>
              {result.nodes[i].person : i \in PersonNodes(result.nodes)}
                  = {p \in Range(pass.selectedPeople) : FeaturedGroupsOf(p) # {}}

\* with includeIsolated = true the threshold does not matter
C22_ThresholdIgnoredWithIsolated ==
    (variant = BIPARTITE /\ Called /\ lastOpts.includeIsolated) =>
        \A th \in ComparedThresholds :
            /\ AtThreshold(th).nodes = result.nodes
            /\ AtThreshold(th).links = result.links
            /\ AtThreshold(th).legendData = result.legendData


-----------------------------------------------------------------------------
(* C23 *)

NodeIds == {result.nodes[i].id : i \in DOMAIN result.nodes}

\* the ids the links of the result start or end at
Endpoints ==
    {result.links[l].source : l \in DOMAIN result.links}
        \cup {result.links[l].target : l \in DOMAIN result.links}

\* C23: with includeIsolated = false every person node of the result is an
\* endpoint of a returned link, and in bipartite mode nobody without a
\* featured group is a node or an endpoint; with includeIsolated = true
\* everybody selectPeople selected is a node.
C23_IsolatedFilter ==
    Called =>
        /\ ~lastOpts.includeIsolated =>
              \A i \in PersonNodes(result.nodes) : result.nodes[i].id \in Endpoints
        /\ (~lastOpts.includeIsolated /\ variant = BIPARTITE) =>
              \A p \in Range(pass.selectedPeople) :
                  FeaturedGroupsOf(p) = {} => p.id \notin NodeIds \cup Endpoints
        /\ lastOpts.includeIsolated =>
              \A p \in Range(pass.selectedPeople) : p.id \in NodeIds

\* a bipartite pass without isolated people that kept somebody and dropped
\* somebody who has a pairwise connection but no featured group
C23_Witness ==
    /\ variant = BIPARTITE
    /\ Called
    /\ ~lastOpts.includeIsolated
    /\ PersonNodes(result.nodes) # {}
    /\ \E p \in Range(pass.filteredPeople) : FeaturedGroupsOf(p) = {}


-----------------------------------------------------------------------------
(* C24 *)

\* where the person of that id stands in this.people
PlaceOf(id) == CHOOSE i \in DOMAIN people : people[i].id = id

SelectedIds == {pass.selectedPeople[i].id : i \in DOMAIN pass.selectedPeople}

\* the returned list: as many as asked for, everyone once, the best by
\* estimate, people of one estimate in the order of the input
SelectedAreBest ==
    /\ Len(pass.selectedPeople) = Min(Len(people), lastOpts.maxNodes)
    /\ \A i \in DOMAIN pass.selectedPeople : pass.selectedPeople[i] \in Range(people)
    /\ \A i, j \in DOMAIN pass.selectedPeople :
          i # j => pass.selectedPeople[i].id # pass.selectedPeople[j].id
    /\ \A i \in DOMAIN pass.selectedPeople, q \in DOMAIN people :
          people[q].id \notin SelectedIds =>
             /\ estimateConnectionCount(pass.selectedPeople[i])
                   >= estimateConnectionCount(people[q])
             /\ estimateConnectionCount(pass.selectedPeople[i])
                   = estimateConnectionCount(people[q])
                 => PlaceOf(pass.selectedPeople[i].id) < q
    /\ \A i, j \in DOMAIN pass.selectedPeople :
          (i < j /\ estimateConnectionCount(pass.selectedPeople[i])
                      = estimateConnectionCount(pass.selectedPeople[j]))
             => PlaceOf(pass.selectedPeople[i].id) < PlaceOf(pass.selectedPeople[j].id)

\* C24: for maxNodes from 10 to 100 selectPeople returns min(n, maxNodes)
\* people of the population, nobody twice; when n > maxNodes nobody left out
\* has a higher estimate than anybody returned, and people of one estimate
\* are taken in input order; this.people is left as it was.
C24_SelectPeople ==
    /\ []((Called /\ lastOpts.maxNodes \in MaxNodesMin..MaxNodesMax) => SelectedAreBest)
    /\ [][calls' # calls /\ pass' # NoPass => people' = people]_vars

\* more people than maxNodes; somebody returned stands behind somebody left
\* out, and somebody left out has the estimate of somebody returned
C24_Witness ==
    /\ Called
    /\ Len(people) > lastOpts.maxNodes
    /\ \E i \in DOMAIN pass.selectedPeople, q \in DOMAIN people :
          /\ people[q].id \notin SelectedIds
          /\ q < PlaceOf(pass.selectedPeople[i].id)
    /\ \E i \in DOMAIN pass.selectedPeople, q \in DOMAIN people :
          /\ people[q].id \notin SelectedIds
          /\ estimateConnectionCount(pass.selectedPeople[i])
                = estimateConnectionCount(people[q])


-----------------------------------------------------------------------------
(* C25 *)

\* C25: when the effect creates a simulation and there was one before (the
\* container as wide as it was), every node that was in the earlier one
\* starts where that one had it last; the grid is for the first simulation
\* alone.
C25_PositionsKept ==
    [][(CreatesSimulation /\ sim.state # "none" /\ sim'.innerWidth = sim.innerWidth) =>
          \A i \in (DOMAIN sim.nodes) \cap (DOMAIN sim'.nodes) :
              /\ sim'.nodes[i].x = sim.nodes[i].x
              /\ sim'.nodes[i].y = sim.nodes[i].y]_vars


-----------------------------------------------------------------------------
(* C26 *)

\* C26: a node has fx, fy set exactly while a drag gesture on it is under
\* way: from pointer-down, through every pointer-move, until pointer-up,
\* which releases it whether or not the pointer went beyond 5 pixels; with
\* no gesture under way no node is pinned.
C26_PinnedWhileDragged ==
    \A i \in DOMAIN sim.nodes : sim.nodes[i].pinned <=> sim.active = i

\* a gesture that moved, but never beyond 5 pixels, has ended and its node is
\* released
C26_Witness ==
    /\ pointer.up
    /\ pointer.reach = 1
    /\ sim.active = 0
    /\ pointer.node \in DOMAIN sim.nodes
    /\ ~sim.nodes[pointer.node].pinned


-----------------------------------------------------------------------------
(* C27 *)

\* C27: a simulation that runs with no drag under way settles in the end
\* (or is stopped, or a drag begins); while a node is held by a drag the
\* simulation does not settle; once the drag has ended it settles again; and
\* the explicit stop of the cleanup halts it at once, whatever state it is in.
C27_Lifecycle ==
    /\ [](sim.active # 0 => sim.state \in {"running", "stopped"})
    /\ (sim.state = "running" /\ sim.active = 0)
          ~> (sim.state # "running" \/ sim.active # 0)
    /\ [][(sim.active # 0 /\ sim'.active = 0) => sim'.alphaTarget = 0]_vars
    /\ [][(sim.cleanup /\ ~sim'.cleanup) => sim'.state = "stopped"]_vars

\* a simulation in which a node was dragged has ticked and settled after the
\* drag ended
C27_Witness ==
    /\ sim.state = "cooled"
    /\ sim.ticked
    /\ sim.clickPrevented
    /\ sim.active = 0

\* no generation pass is waiting on its timer and the network is on screen
NoPassInFlight == ControlsRendered /\ app.passes = {}

\* C28: once the data is loaded, every settings change is eventually followed
\* by a completed generation pass made with the changed settings, so that
\* whenever no pass is in flight the displayed network data is the result for
\* the latest settings; a change that arrives while isLoading is set included
C28_SettingsReachDisplay ==
    /\ [](NoPassInFlight => app.shown = app.settings)
    /\ \A v \in 0..MaxChanges :
          (ControlsRendered /\ app.settings = v)
              ~> (app.shown = v \/ app.settings # v \/ ~ControlsRendered)

\* the same for the changes that arrive while isLoading is clear: the
\* displayed result is behind only by changes made during a pass
C28_IdleChangesReachDisplay ==
    [][(handleSettingsChange /\ ~app.isLoading) => app'.settings \in app'.passes]_vars


-----------------------------------------------------------------------------
(* C29 *)

\* the ids of the returned nodes of one type
IdsOfType(type) ==
    {result.nodes[i].id : i \in {j \in DOMAIN result.nodes : result.nodes[j].type = type}}

\* C29: every returned link starts and ends at a returned node: a pairwise
\* link joins two returned person nodes, a bipartite link joins a returned
\* person node to a returned group node.
C29_NoDanglingLinks ==
    Called =>
        \A l \in DOMAIN result.links :
            /\ result.links[l].source \in IdsOfType("person")
            /\ result.links[l].target \in
                  IF variant = BIPARTITE THEN IdsOfType("group") ELSE IdsOfType("person")

\* a bipartite pass that returned links and a person node one of whose groups
\* is not featured, so that no node stands for that group
C29_Witness ==
    /\ Called
    /\ variant = BIPARTITE
    /\ result.links # <<>>
    /\ \E i \in PersonNodes(result.nodes) :
          \E k \in Range(PersonItems(result.nodes[i].person, lastOpts.connectionType)) :
              GroupId(k) \notin NodeIds

-----------------------------------------------------------------------------
(* C30 *)

\* C30: Retry on the error screen and Try Loading Data on the no-data screen
\* start a new data load, and the loading state entered is left again:
\* dataLoading becomes false, with the people loaded or an error stored.
C30_RetryLeavesLoading ==
    /\ [][(Retry \/ TryLoadingData) => app'.loads > app.loads]_vars
    /\ (app.mounted /\ app.dataLoading) ~> ~app.dataLoading

\* the first load, the one the mount starts, does leave the loading state
C30_FirstLoadLeavesLoading ==
    (app.mounted /\ app.loads > 0) ~> ~app.dataLoading

\* the loading state Retry and Try Loading Data lead to: no load in flight,
\* no pass in flight, nothing left to run
C30_StuckLoading ==
    [](app.mounted /\ app.dataLoading /\ app.loads = 0 => [](app.dataLoading))

====
